---- MODULE Spec2Model ----
(***************************************************************************)
(* A model of the VandyVisor extraction scripts:                           *)
(*   - the requirement normalizer (convert_requirements_to_csv.py and      *)
(*     extract_requirement_structure.py),                                  *)
(*   - the class-section scan (scrape_class_sections.py),                  *)
(*   - the course-catalog run (scrape_course_catalog.py).                  *)
(* Each script is a separate program; each has its own specification.      *)
(*                                                                         *)
(* Python values are tagged tuples so that any two of them can be          *)
(* compared: None is <<"null">>, a str is <<"str", chars>> with chars a    *)
(* sequence of one-character strings, a list is <<"list", seq>>, a bool    *)
(* is <<"bool", b>>, a number is <<"num", n>>.  A dict is a function       *)
(* from key strings to such values; a key that is missing from the dict    *)
(* is missing from the function's domain.                                  *)
(***************************************************************************)
EXTENDS Integers, Sequences, FiniteSets, TLC

VARIABLES
    pc,                 \* position of the running main()
    output_file,        \* content of the output file (None: not created)
    status,             \* what main() reported last
    \* requirement scripts
    mode,               \* which requirement script runs: "detail" | "structure"
    json_data,          \* result of load_json_data
    rows,               \* csv_rows / structure_rows
    \* class-section scan
    class_number,       \* loop variable of main()
    results,            \* accumulated class records
    successful_count,   \* number of classes found
    requests,           \* the class numbers requested so far, in request order
    \* parse_class_header on its own
    header_text,        \* argument
    parsed_header,      \* result
    \* extract_course_ids on its own
    html,               \* argument
    course_entries,     \* result; in the catalog run the candidates of the subject
    \* course-catalog run
    subject_index,      \* position of the subject loop in SUBJECT_MAP
    entry_index,        \* position of the candidate loop in course_entries
    courses_processed,  \* courses found for the current subject
    total_courses_found,\* courses found so far
    fetches,            \* the GETs made so far with their responses, in request order
    \* a record built from one document on its own
    document,           \* the fetched document
    record,             \* the record built from it
    \* subject-table generator
    mappings            \* result of extract_subject_mappings

mainVars == <<pc, output_file, status>>
reqVars == <<mode, json_data, rows>>
scanVars == <<class_number, results, successful_count, requests>>
headerVars == <<header_text, parsed_header>>
idsVars == <<html, course_entries>>
catalogVars == <<subject_index, entry_index, courses_processed, total_courses_found, fetches>>
recordVars == <<document, record>>
subjectVars == <<mappings>>

vars == <<mainVars, reqVars, scanVars, headerVars, idsVars, catalogVars, recordVars, subjectVars>>

-----------------------------------------------------------------------------
(* Python values *)

None == <<"null">>
Str(s) == <<"str", s>>
List(l) == <<"list", l>>
Bool(b) == <<"bool", b>>
Num(n) == <<"num", n>>
Dict(d) == <<"dict", d>>

IsNone(v) == v[1] = "null"

\* the variables of a script that is not the one running
ReqIdle == mode = "" /\ json_data = None /\ rows = <<>>
ScanIdle == class_number = 0 /\ results = <<>> /\ successful_count = 0 /\ requests = <<>>
HeaderIdle == header_text = <<>> /\ parsed_header = None
IdsIdle == html = <<>> /\ course_entries = <<>>
CatalogIdle ==
    /\ subject_index = 0 /\ entry_index = 0 /\ courses_processed = 0
    /\ total_courses_found = 0 /\ fetches = <<>>
RecordIdle == document = None /\ record = None
SubjectsIdle == mappings = None

\* bool(v) of Python
Truthy(v) ==
    CASE v[1] = "null" -> FALSE
      [] v[1] = "str"  -> v[2] # <<>>
      [] v[1] = "list" -> v[2] # <<>>
      [] v[1] = "bool" -> v[2]
      [] v[1] = "num"  -> v[2] # 0
      [] v[1] = "dict" -> DOMAIN v[2] # {}

EmptyDict == [k \in {} |-> None]

\* the header row of a CSV file
Header(fieldnames) == [kind |-> "header", fieldnames |-> fieldnames]

\* d.get(k)
Get(d, k) == IF k \in DOMAIN d THEN d[k] ELSE None

\* d.get(k, default)
GetOr(d, k, default) == IF k \in DOMAIN d THEN d[k] ELSE default

\* {**d, k: v}
Put(d, k, v) == [x \in (DOMAIN d) \cup {k} |-> IF x = k THEN v ELSE d[x]]

\* {**a, **b}: the keys of b win
Merge(a, b) == [x \in (DOMAIN a) \cup (DOMAIN b) |-> IF x \in DOMAIN b THEN b[x] ELSE a[x]]

RECURSIVE FlatMap(_, _)
\* the rows.extend(...) / rows.append(...) accumulation of a for loop over s
FlatMap(F(_), s) == IF s = <<>> THEN <<>> ELSE F(Head(s)) \o FlatMap(F, Tail(s))

Max(a, b) == IF a >= b THEN a ELSE b

-----------------------------------------------------------------------------
(* Characters and strings (sequences of one-character strings) *)

Digits == <<"0", "1", "2", "3", "4", "5", "6", "7", "8", "9">>
DigitChar(n) == Digits[n + 1]

IsDigit(c) == c \in {"0", "1", "2", "3", "4", "5", "6", "7", "8", "9"}
IsUpper(c) == c \in {"A", "B", "C", "D", "E", "F", "G", "H", "I", "J", "K", "L", "M",
                     "N", "O", "P", "Q", "R", "S", "T", "U", "V", "W", "X", "Y", "Z"}
IsSpace(c) == c \in {" ", "\t", "\n"}

\* a Python str held whole: text the code only stores or looks up, never parses
Sym(a) == <<"sym", a>>

RECURSIVE LStrip(_)
LStrip(s) == IF s # <<>> /\ IsSpace(Head(s)) THEN LStrip(Tail(s)) ELSE s

RECURSIVE RStrip(_)
RStrip(s) == IF s # <<>> /\ IsSpace(s[Len(s)]) THEN RStrip(SubSeq(s, 1, Len(s) - 1)) ELSE s

\* s.strip()
Strip(s) == RStrip(LStrip(s))

\* c repeated n times
Rep(c, n) == [i \in 1..n |-> c]

RECURSIVE ToStr(_)
\* str(n) for n >= 0
ToStr(n) == IF n < 10 THEN <<DigitChar(n)>> ELSE Append(ToStr(n \div 10), DigitChar(n % 10))

DigitValue(c) == (CHOOSE i \in 1..10 : Digits[i] = c) - 1

RECURSIVE ToInt(_)
\* the number a string of digits denotes (0 for the empty string)
ToInt(s) == IF s = <<>> THEN 0
            ELSE 10 * ToInt(SubSeq(s, 1, Len(s) - 1)) + DigitValue(s[Len(s)])

\* the positions of c in s
Positions(s, c) == {i \in 1..Len(s) : s[i] = c}

SetMin(S) == CHOOSE x \in S : \A y \in S : x <= y
SetMax(S) == CHOOSE x \in S : \A y \in S : x >= y

-----------------------------------------------------------------------------
(* Requirement normalizer: convert_requirements_to_csv.py *)

COURSE_FIELDS ==
    << <<"term_taken", "termTaken">>, <<"course_id", "courseId">>,
       <<"units_earned", "unitsEarned">>, <<"units_taken", "unitsTaken">>,
       <<"long_title", "longTitle">>, <<"grade", "grade">>,
       <<"sequence", "sequence">>, <<"subject", "subject">>,
       <<"catalog_number", "catalogNumber">>, <<"display_name", "displayName">> >>

CourseColumns == {COURSE_FIELDS[i][1] : i \in 1..Len(COURSE_FIELDS)}
JsonKey(col) == COURSE_FIELDS[CHOOSE i \in 1..Len(COURSE_FIELDS) : COURSE_FIELDS[i][1] = col][2]

\* base_row_data of process_requirement_line
BaseRowData(shared_data, line) ==
    Merge(shared_data,
          [description    |-> Get(line, "description"),
           status         |-> Get(line, "status"),
           units_required |-> Get(line, "unitsRequired"),
           units_used     |-> Get(line, "unitsUsed"),
           units_needed   |-> Get(line, "unitsNeeded")])

\* course_row of process_requirement_line
CourseRow(base_row_data, course) ==
    Merge(base_row_data, [col \in CourseColumns |-> Get(course, JsonKey(col))])

\* empty_course_row of process_requirement_line
EmptyCourseRow(base_row_data) ==
    Merge(base_row_data, [col \in CourseColumns |-> None])

\* mutant: a line without satisfying courses is dropped
process_requirement_line_DropsEmpty(shared_data, line) ==
    LET base_row_data == BaseRowData(shared_data, line)
        courses == GetOr(line, "coursesUsedToSatisfy", List(<<>>))
    IN  IF Truthy(courses)
        THEN [i \in 1..Len(courses[2]) |-> CourseRow(base_row_data, courses[2][i])]
        ELSE <<>>

\* mutant: the rows of a line are emitted last course first
process_requirement_line_Reversed(shared_data, line) ==
    LET base_row_data == BaseRowData(shared_data, line)
        courses == GetOr(line, "coursesUsedToSatisfy", List(<<>>))
        n == Len(courses[2])
    IN  IF Truthy(courses)
        THEN [i \in 1..n |-> CourseRow(base_row_data, courses[2][n + 1 - i])]
        ELSE <<EmptyCourseRow(base_row_data)>>

process_requirement_line(shared_data, line) ==
    LET base_row_data == BaseRowData(shared_data, line)
        courses == GetOr(line, "coursesUsedToSatisfy", List(<<>>))
    IN  IF Truthy(courses)
        THEN [i \in 1..Len(courses[2]) |-> CourseRow(base_row_data, courses[2][i])]
        ELSE <<EmptyCourseRow(base_row_data)>>

\* mutant: the flag tests that the key is present, not that its value is non-empty
IsMainRequirement_KeyPresent(req_group) == "plan" \in DOMAIN req_group

\* is_main_requirement = bool(req_group.get("plan"))
IsMainRequirement(req_group) == Truthy(Get(req_group, "plan"))

UnnamedGroup == Str(<<"U", "n", "n", "a", "m", "e", "d">>)

\* the list stored under key, [] when the key is missing
ListOr(d, key) == GetOr(d, key, List(<<>>))[2]

\* shared_data of convert_requirements_to_csv
SharedData(req_group, requirement) ==
    [group_name          |-> GetOr(req_group, "name", UnnamedGroup),
     is_main_requirement |-> Bool(IsMainRequirement(req_group)),
     requirement_name    |-> Get(requirement, "name")]

convert_requirements_to_csv(data) ==
    FlatMap(LAMBDA requirement_group :
        FlatMap(LAMBDA req_group :
            FlatMap(LAMBDA requirement :
                FlatMap(LAMBDA line :
                            process_requirement_line(SharedData(req_group, requirement), line),
                        ListOr(requirement, "requirementLines")),
                    ListOr(req_group, "requirements")),
                ListOr(requirement_group, "requirementGroups")),
            data)

DetailFieldnames ==
    {"group_name", "is_main_requirement", "requirement_name", "description",
     "status", "units_required", "units_used", "units_needed"} \cup CourseColumns

-----------------------------------------------------------------------------
(* Requirement normalizer: extract_requirement_structure.py *)

\* row_data of extract_requirement_structure
StructureRow(req_group, requirement, line) ==
    [requirement_group_number   |-> Get(req_group, "requirementGroupNumber"),
     entry_sequence             |-> Get(req_group, "entrySequence"),
     requirement_number         |-> Get(requirement, "requirementNumber"),
     requirement_entry_sequence |-> Get(requirement, "entrySequence"),
     group_name                 |-> GetOr(req_group, "name", UnnamedGroup),
     is_main_requirement        |-> Bool(IsMainRequirement(req_group)),
     line_name                  |-> Get(line, "name"),
     description                |-> Get(line, "description"),
     status                     |-> Get(line, "status"),
     units_required             |-> Get(line, "unitsRequired"),
     units_used                 |-> Get(line, "unitsUsed"),
     units_needed               |-> Get(line, "unitsNeeded")]

\* mutant: one row per satisfying course, as in detail mode
extract_requirement_structure_PerCourse(data) ==
    FlatMap(LAMBDA requirement_group :
        FlatMap(LAMBDA req_group :
            FlatMap(LAMBDA requirement :
                FlatMap(LAMBDA line :
                            LET courses == GetOr(line, "coursesUsedToSatisfy", List(<<>>))
                            IN  IF Truthy(courses)
                                THEN [i \in 1..Len(courses[2]) |->
                                         StructureRow(req_group, requirement, line)]
                                ELSE <<StructureRow(req_group, requirement, line)>>,
                        ListOr(requirement, "requirementLines")),
                    ListOr(req_group, "requirements")),
                ListOr(requirement_group, "requirementGroups")),
            data)

extract_requirement_structure(data) ==
    FlatMap(LAMBDA requirement_group :
        FlatMap(LAMBDA req_group :
            FlatMap(LAMBDA requirement :
                FlatMap(LAMBDA line : <<StructureRow(req_group, requirement, line)>>,
                        ListOr(requirement, "requirementLines")),
                    ListOr(req_group, "requirements")),
                ListOr(requirement_group, "requirementGroups")),
            data)

StructureFieldnames ==
    {"group_name", "is_main_requirement", "line_name", "description", "status",
     "requirement_group_number", "requirement_number", "entry_sequence",
     "requirement_entry_sequence", "units_required", "units_used", "units_needed"}

-----------------------------------------------------------------------------
(* Class-section scan: scrape_class_sections.py *)

START_CLASS_NUMBER == 1000

\* re.split(r"\s*:\s*", s, maxsplit=1): the leftmost match ends at the first colon,
\* starts at the white space in front of it and takes the white space after it
SplitAtColon(s) ==
    IF Positions(s, ":") = {} THEN <<s>>
    ELSE LET q == SetMin(Positions(s, ":"))
             p == SetMin({a \in 1..q : \A i \in a..(q - 1) : IsSpace(s[i])})
             e == SetMax({b \in q..Len(s) : \A i \in (q + 1)..b : IsSpace(s[i])})
         IN  <<SubSeq(s, 1, p - 1), SubSeq(s, e + 1, Len(s))>>

\* re.match(r"([A-Z]{2,6})-([A-Z\d]{4,6})-(\d{2})", s): the lengths <<i, j>> of the
\* first two groups in every way the pattern matches a prefix of s
HeaderMatches(s) ==
    {m \in (2..6) \X (4..6) :
        LET i == m[1]
            j == m[2]
        IN  /\ Len(s) >= i + j + 4
            /\ \A a \in 1..i : IsUpper(s[a])
            /\ s[i + 1] = "-"
            /\ \A a \in (i + 2)..(i + j + 1) : IsUpper(s[a]) \/ IsDigit(s[a])
            /\ s[i + j + 2] = "-"
            /\ IsDigit(s[i + j + 3]) /\ IsDigit(s[i + j + 4])}

\* the match the greedy quantifiers choose
FirstHeaderMatch(s) ==
    CHOOSE m \in HeaderMatches(s) :
        \A o \in HeaderMatches(s) : o[1] < m[1] \/ (o[1] = m[1] /\ o[2] <= m[2])

parse_class_header(text) ==
    LET split_parts == SplitAtColon(text)
        left_part == Strip(split_parts[1])
        long_title == IF Len(split_parts) > 1 THEN Strip(split_parts[2]) ELSE <<>>
    IN  IF HeaderMatches(left_part) = {} THEN None
        ELSE LET m == FirstHeaderMatch(left_part)
                 subject == SubSeq(left_part, 1, m[1])
                 catalog_number == SubSeq(left_part, m[1] + 2, m[1] + m[2] + 1)
                 section_number == SubSeq(left_part, m[1] + m[2] + 3, m[1] + m[2] + 4)
             IN  Dict([subject        |-> Str(subject),
                       catalog_number |-> Str(catalog_number),
                       section_number |-> Str(section_number),
                       display_name   |-> Str(subject \o <<"-">> \o catalog_number),
                       long_title     |-> Str(long_title)])

-----------------------------------------------------------------------------
(* Lookup tables: config/mappings *)

SCHOOL_MAP ==
    ("Allied Health" :> "AH") @@
    ("Blair School of Music" :> "BLAIR") @@
    ("College of Arts and Science" :> "A&S") @@
    ("College of Connected Computing" :> "CCC") @@
    ("Divinity School" :> "DIV") @@
    ("Division Unclassified Studies" :> "DUS") @@
    ("Fisk University" :> "FISK") @@
    ("Graduate School" :> "GS") @@
    ("Law School" :> "LAW") @@
    ("Lipscomb" :> "LU") @@
    ("Meharry Medical College" :> "MEHRY") @@
    ("Owen Grad School of Management" :> "OGSM") @@
    ("Peabody College" :> "PBDY") @@
    ("School of Engineering" :> "ENGIN") @@
    ("School of Medicine" :> "MED") @@
    ("School of Nursing" :> "NURS") @@
    ("Sewanee: The Univ of the South" :> "SEW") @@
    ("Tennessee State University" :> "TSU") @@
    ("Vanderbilt" :> "VANDY")

CAREER_MAP ==
    ("Consortium" :> "CN") @@
    ("Distance Learning Programs" :> "DLP") @@
    ("Div of Unclassified Studies" :> "DUS") @@
    ("Divinity" :> "DIV") @@
    ("Divinity Doctorate" :> "DD") @@
    ("Engineering-Professional" :> "ENGP") @@
    ("Graduate" :> "GRAD") @@
    ("Law" :> "LAW") @@
    ("Medical Doctor" :> "MEDD") @@
    ("Medical Masters/Prof Doctoral" :> "MEDM") @@
    ("Nursing" :> "NURS") @@
    ("Owen Management" :> "GSM") @@
    ("Peabody-Professional" :> "PBDP") @@
    ("Undergraduate" :> "UGRD")

COMPONENT_MAP ==
    ("Art Studio" :> "STD") @@
    ("Class" :> "CLS") @@
    ("Clerkship" :> "CL") @@
    ("Clinical" :> "CLN") @@
    ("Directed Study" :> "DIR") @@
    ("Discussion" :> "DSC") @@
    ("Dissertation Research" :> "DIS") @@
    ("Drill" :> "DRI") @@
    ("Externship" :> "EXT") @@
    ("Field Studies" :> "FLD") @@
    ("Field Work" :> "FW") @@
    ("Freshman Seminars" :> "FWS") @@
    ("Independent Study" :> "IND") @@
    ("Internship" :> "INT") @@
    ("Laboratory" :> "LAB") @@
    ("Lecture" :> "LEC") @@
    ("Lecture and Discussion" :> "LDC") @@
    ("Lecture and Lab" :> "LLB") @@
    ("Lecture and Performance" :> "LPR") @@
    ("Lecture-Tech Based Instruction" :> "LTI") @@
    ("Masters Thesis Research" :> "THS") @@
    ("Methods" :> "MTH") @@
    ("Online Learning" :> "ONL") @@
    ("Performance" :> "PER") @@
    ("Practicum" :> "PRC") @@
    ("Project" :> "PRJ") @@
    ("Publications" :> "PUB") @@
    ("Research" :> "RES") @@
    ("Selected/Special Topics" :> "STP") @@
    ("Seminar" :> "SEM") @@
    ("Senior Scholar" :> "SSC") @@
    ("Senior Thesis" :> "SRT") @@
    ("Studies" :> "STU") @@
    ("Subinternship" :> "SUB") @@
    ("Supervision" :> "SUP") @@
    ("Test 1" :> "TS1") @@
    ("Test 2" :> "TS2") @@
    ("Thesis Research" :> "THE")

\* mutant: a label that is not in the table is looked up in the other tables
MapGet_OtherTables(table, value) ==
    LET all == SCHOOL_MAP @@ CAREER_MAP @@ COMPONENT_MAP
    IN  IF value[1] = "sym" /\ value[2] \in DOMAIN table THEN Sym(table[value[2]])
        ELSE IF value[1] = "sym" /\ value[2] \in DOMAIN all THEN Sym(all[value[2]])
        ELSE None

\* table.get(value): value is a label held whole; anything else is no key of the table
MapGet(table, value) ==
    IF value[1] = "sym" /\ value[2] \in DOMAIN table THEN Sym(table[value[2]]) ELSE None

-----------------------------------------------------------------------------
(* Class-section scan: the detail page of one class number *)

\* float(value) succeeds: value is digits with at most one "." (the texts tried hold
\* digits, ".", "-" and letters only)
IsFloatText(s) ==
    /\ \E i \in 1..Len(s) : IsDigit(s[i])
    /\ \A i \in 1..Len(s) : IsDigit(s[i]) \/ s[i] = "."
    /\ Cardinality(Positions(s, ".")) <= 1

\* float(value), in hundredths
FloatOf(s) ==
    LET dot == IF Positions(s, ".") = {} THEN Len(s) + 1 ELSE SetMin(Positions(s, "."))
        frac == SubSeq(s \o <<"0", "0">>, dot + 1, dot + 2)
    IN  <<"float", 100 * ToInt(SubSeq(s, 1, dot - 1)) + ToInt(frac)>>

\* text.replace(":", "")
RemoveColons(s) == SelectSeq(s, LAMBDA c : c # ":")

LabelSchool == <<"S", "c", "h", "o", "o", "l">>
LabelCareer == <<"C", "a", "r", "e", "e", "r">>
LabelComponent == <<"C", "o", "m", "p", "o", "n", "e", "n", "t">>
LabelHours == <<"H", "o", "u", "r", "s">>

RECURSIVE DetailRows(_, _)
\* the loop over the rows of the detail panel; acc holds school, career, component, hours
DetailRows(trs, acc) ==
    IF trs = <<>> THEN acc
    ELSE LET tds == Head(trs)
         IN  IF Len(tds) < 2 THEN DetailRows(Tail(trs), acc)
             ELSE LET label == RemoveColons(tds[1][2])
                      value == tds[2]
                  IN  DetailRows(Tail(trs),
                        CASE label = LabelSchool    -> [acc EXCEPT !.school = MapGet(SCHOOL_MAP, value)]
                          [] label = LabelCareer    -> [acc EXCEPT !.career = MapGet(CAREER_MAP, value)]
                          [] label = LabelComponent -> [acc EXCEPT !.component = MapGet(COMPONENT_MAP, value)]
                          [] label = LabelHours     ->
                                [acc EXCEPT !.hours = IF value[1] = "str" /\ IsFloatText(value[2])
                                                      THEN FloatOf(value[2]) ELSE None]
                          [] OTHER -> acc)

\* soup.find("div", {"class": "detailPanel"}) is page.panel: None or the list of its
\* rows, a row being the texts of its cells
extract_class_details(page) ==
    IF IsNone(page.panel) THEN EmptyDict
    ELSE LET acc == DetailRows(page.panel[2],
                               [school |-> None, career |-> None, component |-> None, hours |-> None])
         IN  [school_code    |-> acc.school,
              career_code    |-> acc.career,
              component_code |-> acc.component,
              units_earned   |-> acc.hours]

Raise == <<"raise">>

\* the response to the GET of one class number:
\*   error  "none", or "transport" / "timeout" (requests.get raises a
\*          RequestException), or "parse" (an exception while the page is parsed)
\*   marker "classSectionDetailDialog" in response.text
\*   h1     None or the text of the first h1
\*   panel  None or the rows of the detailPanel div
\* mutant: only RequestException is caught, any other exception leaves the function
scrape_class_section_NoCatchAll(number, page) ==
    IF page.error \in {"transport", "timeout"} THEN None
    ELSE IF ~page.marker THEN None
    ELSE IF page.error = "parse" THEN Raise
    ELSE IF IsNone(page.h1) THEN None
    ELSE LET text == Strip(page.h1[2])
             parsed == parse_class_header(text)
         IN  IF ~Truthy(parsed) THEN None
             ELSE Dict(Merge([class_number   |-> Str(ToStr(number)),
                              display_name   |-> parsed[2].display_name,
                              long_title     |-> parsed[2].long_title,
                              subject        |-> parsed[2].subject,
                              catalog_number |-> parsed[2].catalog_number,
                              section_number |-> parsed[2].section_number],
                             extract_class_details(page)))

scrape_class_section(number, page) ==
    IF page.error \in {"transport", "timeout"} THEN None            \* except RequestException
    ELSE IF ~page.marker THEN None
    ELSE IF page.error = "parse" THEN None                           \* except Exception
    ELSE IF IsNone(page.h1) THEN None
    ELSE LET text == Strip(page.h1[2])
             parsed == parse_class_header(text)
         IN  IF ~Truthy(parsed) THEN None
             ELSE Dict(Merge([class_number   |-> Str(ToStr(number)),
                              display_name   |-> parsed[2].display_name,
                              long_title     |-> parsed[2].long_title,
                              subject        |-> parsed[2].subject,
                              catalog_number |-> parsed[2].catalog_number,
                              section_number |-> parsed[2].section_number],
                             extract_class_details(page)))

-----------------------------------------------------------------------------
(* Class-section scan: main() *)

ScanLen == 3           \* class numbers of the scanned range

\* the source scans 1000 .. 12999; the model scans the first ScanLen numbers
END_CLASS_NUMBER == START_CLASS_NUMBER + ScanLen

GoodHeading == <<"C", "S", "-", "1", "1", "0", "1", "-", "0", "1", " ", ":", " ", "A">>
OtherHeadings ==
    {<<" ", "M", "A", "T", "H", "-", "2", "3", "0", "0", "A", "-", "1", "2", "X", ":", "B", " ">>,
     <<"I", "n", "t", "r", "o", " ", "S", "e", "m", "i", "n", "a", "r">>}

PanelRows ==
    {<< <<Str(<<"S", "c", "h", "o", "o", "l", ":">>), Sym("School of Engineering")>>,
        <<Str(<<"C", "a", "r", "e", "e", "r", ":">>), Sym("Undergraduate")>>,
        <<Str(<<"C", "o", "m", "p", "o", "n", "e", "n", "t", ":">>), Sym("Lecture")>>,
        <<Str(<<"H", "o", "u", "r", "s", ":">>), Str(<<"3", ".", "0">>)>> >>,
     << <<Str(<<"N", "o", "t", "e", "s">>)>>,
        <<Str(<<"S", "c", "h", "o", "o", "l">>), Sym("Hogwarts")>>,
        <<Str(<<"H", "o", "u", "r", "s", ":">>), Str(<<"1", "-", "3">>)>> >>}

Page(error, marker, h1, panel) == [error |-> error, marker |-> marker, h1 |-> h1, panel |-> panel]

PanelChoices == {None} \cup {List(r) : r \in PanelRows}

ClassPages ==
    {Page("transport", FALSE, None, None), Page("timeout", FALSE, None, None),
     Page("none", FALSE, None, None), Page("parse", TRUE, None, None),
     Page("none", TRUE, None, None)}
    \cup {Page("none", TRUE, Str(GoodHeading), p) : p \in PanelChoices}
    \cup {Page("none", TRUE, Str(h), CHOOSE p \in PanelChoices : p # None) : h \in OtherHeadings}

InitScan ==
    /\ pc = IF START_CLASS_NUMBER < END_CLASS_NUMBER THEN "scan" ELSE "to_csv"
    /\ class_number = START_CLASS_NUMBER
    /\ results = <<>>
    /\ successful_count = 0
    /\ requests = <<>>
    /\ output_file = None
    /\ status = "running"
    /\ ReqIdle /\ HeaderIdle /\ IdsIdle /\ CatalogIdle /\ RecordIdle /\ SubjectsIdle

\* mutant: every iteration is counted, found or not
ScanStep_CountsRequests ==
    /\ pc = "scan"
    /\ \E page \in ClassPages :
          LET class_data == scrape_class_section(class_number, page)
          IN  /\ requests' = Append(requests, <<class_number, page>>)
              /\ IF class_data = Raise
                 THEN /\ pc' = "exit"
                      /\ status' = "crashed"
                      /\ UNCHANGED <<class_number, results, successful_count>>
                 ELSE /\ IF Truthy(class_data)
                         THEN /\ successful_count' = successful_count + 1
                              /\ results' = Append(results, class_data)
                         ELSE /\ successful_count' = successful_count + 1
                              /\ UNCHANGED results
                      /\ class_number' = class_number + 1
                      /\ pc' = IF class_number' < END_CLASS_NUMBER THEN "scan" ELSE "to_csv"
                      /\ UNCHANGED status
    /\ UNCHANGED <<output_file, reqVars, headerVars, idsVars, catalogVars, recordVars, subjectVars>>

\* one iteration of the for loop: class_data = scrape_class_section(class_number),
\* counted and appended when truthy, then the delay; an exception that left
\* scrape_class_section would end main()
ScanStep ==
    /\ pc = "scan"
    /\ \E page \in ClassPages :
          LET class_data == scrape_class_section(class_number, page)
          IN  /\ requests' = Append(requests, <<class_number, page>>)
              /\ IF class_data = Raise
                 THEN /\ pc' = "exit"
                      /\ status' = "crashed"
                      /\ UNCHANGED <<class_number, results, successful_count>>
                 ELSE /\ IF Truthy(class_data)
                         THEN /\ successful_count' = successful_count + 1
                              /\ results' = Append(results, class_data)
                         ELSE UNCHANGED <<results, successful_count>>
                      /\ class_number' = class_number + 1
                      /\ pc' = IF class_number' < END_CLASS_NUMBER THEN "scan" ELSE "to_csv"
                      /\ UNCHANGED status
    /\ UNCHANGED <<output_file, reqVars, headerVars, idsVars, catalogVars, recordVars, subjectVars>>

NaN == <<"nan">>

\* pd.DataFrame(results): the columns are the keys of all records, a record without
\* a column has NaN there
DataFrameColumns(records) == UNION {DOMAIN records[i][2] : i \in 1..Len(records)}
DataFrame(records) ==
    [i \in 1..Len(records) |->
        [c \in DataFrameColumns(records) |-> GetOr(records[i][2], c, NaN)]]

\* if results: df.to_csv(output_file, index=False); an exception of to_csv is not caught
SaveClasses ==
    /\ pc = "to_csv"
    /\ results # <<>>
    /\ \/ /\ output_file' = List(<<Header(DataFrameColumns(results))>> \o DataFrame(results))
          /\ status' = "completed"
       \/ /\ output_file' \in {output_file, List(<<>>)}
          /\ status' = "crashed"
    /\ pc' = "exit"
    /\ UNCHANGED <<scanVars, reqVars, headerVars, idsVars, catalogVars, recordVars, subjectVars>>

\* variant: the table is saved also when it is empty, its header line only
NoClassData_WritesHeader ==
    /\ pc = "to_csv"
    /\ results = <<>>
    /\ output_file' = List(<<Header(DataFrameColumns(results))>> \o DataFrame(results))
    /\ status' = "no data"
    /\ pc' = "exit"
    /\ UNCHANGED <<scanVars, reqVars, headerVars, idsVars, catalogVars, recordVars, subjectVars>>

\* else: print("No class data found")
NoClassData ==
    /\ pc = "to_csv"
    /\ results = <<>>
    /\ status' = "no data"
    /\ pc' = "exit"
    /\ UNCHANGED <<output_file, scanVars, reqVars, headerVars, idsVars, catalogVars, recordVars, subjectVars>>

NextScan == ScanStep \/ SaveClasses \/ NoClassData

SpecScan == InitScan /\ [][NextScan]_vars

\* every iteration ends (the GET has a timeout) and main() runs on
FairSpecScan == SpecScan /\ WF_vars(NextScan)

-----------------------------------------------------------------------------
(* Properties of the class-section scan *)

\* the request for one class number fails: transport error, timeout, no marker in
\* the response, an exception while parsing, no heading, or a heading that
\* parse_class_header rejects
ScanFailure(page) ==
    \/ page.error # "none"
    \/ ~page.marker
    \/ IsNone(page.h1)
    \/ IsNone(parse_class_header(Strip(page.h1[2])))

RecordsOf(number) == {i \in 1..Len(results) : results[i][2].class_number = Str(ToStr(number))}

C6_Scan ==
    /\ \A i \in 1..Len(requests) : requests[i][1] = START_CLASS_NUMBER + i - 1
    /\ pc = "scan" => /\ class_number < END_CLASS_NUMBER
                      /\ Len(requests) = class_number - START_CLASS_NUMBER
    /\ pc # "scan" => /\ class_number = END_CLASS_NUMBER
                      /\ Len(requests) = END_CLASS_NUMBER - START_CLASS_NUMBER
    /\ \A i \in 1..Len(requests) :
          Cardinality(RecordsOf(requests[i][1])) = IF ScanFailure(requests[i][2]) THEN 0 ELSE 1

\* C6: the class numbers START_CLASS_NUMBER .. END_CLASS_NUMBER - 1 are requested once
\* each in ascending order, a request that fails leaves no record, and the scan
\* always goes on to the end of the range
C6_ScanNeverAborts ==
    /\ []C6_Scan
    /\ <>(pc = "exit" /\ class_number = END_CLASS_NUMBER)

C6_Witness ==
    /\ pc = "exit"
    /\ Len(requests) >= 2
    /\ requests[1][2].error = "parse"
    /\ requests[2][2].error = "timeout"
    /\ \E i \in 1..Len(requests) : ~ScanFailure(requests[i][2])
    /\ Len(results) = 1

\* the class number of a record
NumberOf(class_record) == ToInt(class_record[2].class_number[2])

\* C19: the counter is the number of accumulated records, the records are in
\* ascending class-number order without a number twice; an iteration appends one
\* record and adds one to the counter (id parsed) or leaves both (id skipped), and
\* nothing is ever removed
C19_Accumulator ==
    /\ [](/\ successful_count = Len(results)
          /\ \A i, j \in 1..Len(results) : i < j => NumberOf(results[i]) < NumberOf(results[j]))
    /\ [][/\ \/ results' = results /\ successful_count' = successful_count
            \/ /\ Len(results') = Len(results) + 1
               /\ SubSeq(results', 1, Len(results)) = results
               /\ successful_count' = successful_count + 1
          /\ requests' # requests =>
                (ScanFailure(requests'[Len(requests')][2]) <=> results' = results)]_vars

\* three iterations: found, skipped, found
C19_Witness ==
    /\ Len(requests) = 3
    /\ ~ScanFailure(requests[1][2])
    /\ ScanFailure(requests[2][2])
    /\ ~ScanFailure(requests[3][2])
    /\ successful_count = 2
    /\ Len(results) = 2
    /\ NumberOf(results[2]) = START_CLASS_NUMBER + 2

\* the fieldnames of the course table
csv_keys ==
    {"course_id", "subject", "catalog_number", "display_name", "long_title",
     "school_code", "career_code", "component_code", "units_earned", "term_offered",
     "all_requirements", "corequisites", "prerequisites", "anti_requirements",
     "attributes", "description"}

ClassSectionColumns ==
    {"class_number", "display_name", "long_title", "subject", "catalog_number",
     "section_number", "school_code", "career_code", "component_code", "units_earned"}

\* C5: the records of one output table all have the table's fixed set of keys, a
\* value that is not found being null under its key: class-section records (also
\* without a detailPanel div), course records, and the rows of both requirement modes
C5_FixedColumns ==
    /\ \A i \in 1..Len(results) : DOMAIN results[i][2] = ClassSectionColumns
    /\ mode = "detail" => \A i \in 1..Len(rows) : DOMAIN rows[i] = DetailFieldnames
    /\ mode = "structure" => \A i \in 1..Len(rows) : DOMAIN rows[i] = StructureFieldnames
    /\ subject_index > 0 /\ ~IsNone(output_file) =>
          \A i \in 2..Len(output_file[2]) : DOMAIN output_file[2][i] = csv_keys

-----------------------------------------------------------------------------
(* parse_class_header applied to one header text *)

MaxSubjectLen == 7     \* letters of the longest subject tried
MaxCatalogLen == 7     \* characters of the longest catalog number tried
MaxSectionLen == 3     \* digits of the longest section number tried

SubjectTexts == {Rep("C", n) : n \in 1..MaxSubjectLen} \cup {<<"C", "s">>, <<"C", "1", "C">>}
CatalogTexts ==
    {Rep("1", n) : n \in 3..MaxCatalogLen} \cup {<<"1", "1", "0", "A">>, <<"1", "1", "0", "a">>}
SectionTexts == {Rep("0", n) : n \in 1..MaxSectionLen} \cup {<<"0", "A">>, <<"A", "0">>}
DashTexts == {<<"-">>, <<" ">>}
LeadTexts == {<<>>, <<" ">>}
TailTexts == {<<>>, <<"X">>}
TitleTexts == {<<>>, <<":">>, <<" ", ":", " ", "T", " ">>, <<":", "T", ":", "U">>}

HeaderTexts ==
    {lead \o subj \o d1 \o cat \o d2 \o sec \o tail \o title :
        lead \in LeadTexts, subj \in SubjectTexts, d1 \in DashTexts, cat \in CatalogTexts,
        d2 \in DashTexts, sec \in SectionTexts, tail \in TailTexts, title \in TitleTexts}

InitHeader ==
    /\ pc = "call"
    /\ header_text \in HeaderTexts
    /\ parsed_header = None
    /\ output_file = None /\ status = "running"
    /\ ReqIdle /\ ScanIdle /\ IdsIdle /\ CatalogIdle /\ RecordIdle /\ SubjectsIdle

ParseClassHeader ==
    /\ pc = "call"
    /\ parsed_header' = parse_class_header(header_text)
    /\ pc' = "return"
    /\ UNCHANGED <<output_file, status, header_text, reqVars, scanVars, idsVars, catalogVars, recordVars, subjectVars>>

NextHeader == ParseClassHeader

SpecHeader == InitHeader /\ [][NextHeader]_vars

\* the text in front of the first colon (all of it when there is no colon)
BeforeColon(s) ==
    IF Positions(s, ":") = {} THEN s ELSE SubSeq(s, 1, SetMin(Positions(s, ":")) - 1)
AfterColon(s) ==
    IF Positions(s, ":") = {} THEN <<>> ELSE SubSeq(s, SetMin(Positions(s, ":")) + 1, Len(s))

\* t is SUBJECT-CATALOG-SECTION: 2 to 6 uppercase letters, 4 to 6 uppercase letters
\* or digits, exactly 2 digits, and nothing else
HasHeaderShape(t) ==
    \E i \in 2..6, j \in 4..6 :
        /\ Len(t) = i + j + 4
        /\ \A a \in 1..i : IsUpper(t[a])
        /\ t[i + 1] = "-"
        /\ \A a \in (i + 2)..(i + j + 1) : IsUpper(t[a]) \/ IsDigit(t[a])
        /\ t[i + j + 2] = "-"
        /\ IsDigit(t[i + j + 3]) /\ IsDigit(t[i + j + 4])

\* C10: parse_class_header returns a result iff the text before the first colon is
\* SUBJECT-CATALOG-SECTION (2-6 uppercase letters, 4-6 uppercase letters or digits,
\* exactly 2 digits); then display_name is subject-catalog and long_title is the
\* trimmed text after the first colon
C10_StrictHeader ==
    pc = "return" =>
        LET left == Strip(BeforeColon(header_text))
            parsed == parsed_header[2]
        IN  /\ ~IsNone(parsed_header) <=> HasHeaderShape(left)
            /\ ~IsNone(parsed_header) =>
                  /\ left = parsed.subject[2] \o <<"-">> \o parsed.catalog_number[2]
                               \o <<"-">> \o parsed.section_number[2]
                  /\ parsed.display_name = Str(parsed.subject[2] \o <<"-">> \o parsed.catalog_number[2])
                  /\ parsed.long_title = Str(Strip(AfterColon(header_text)))

-----------------------------------------------------------------------------
(* Input documents of the requirement normalizer.  A document is grown    *)
(* node by node in document order; the n-th node added carries n in its   *)
(* names and numbers, so that any two nodes of a document differ.          *)

MaxNodes == 5          \* nodes (top objects, groups, requirements, lines) of a document
MaxCourses == 2        \* satisfying courses of a line

Name(letter, n) == Str(<<letter, DigitChar(n)>>)
Name2(letter, n, k) == Str(<<letter, DigitChar(n), DigitChar(k)>>)

\* the k-th satisfying course of line n; the second course of a line has no grade
MakeCourse(n, k) ==
    LET full == [termTaken     |-> Name2("T", n, k),
                 courseId      |-> Name2("I", n, k),
                 unitsEarned   |-> Num(k),
                 unitsTaken    |-> Num(k + 1),
                 longTitle     |-> Name2("L", n, k),
                 grade         |-> Name2("A", n, k),
                 sequence      |-> Num(10 * n + k),
                 subject       |-> Name2("S", n, k),
                 catalogNumber |-> Name2("N", n, k),
                 displayName   |-> Name2("D", n, k)]
    IN  IF k = 2 THEN [f \in (DOMAIN full) \ {"grade"} |-> full[f]] ELSE full

\* the "coursesUsedToSatisfy" of a line: 0 key missing, 1 null, 2 + c a list of c courses
CourseOpts == 0..(MaxCourses + 2)

MakeLine(n, opt) ==
    LET base == [name          |-> Name("l", n),
                 description   |-> Name("d", n),
                 status        |-> Name("s", n),
                 unitsRequired |-> Num(n),
                 unitsUsed     |-> Num(n + 1),
                 unitsNeeded   |-> Num(n + 2)]
    IN  CASE opt = 0 -> [f \in (DOMAIN base) \ {"status"} |-> base[f]]
          [] opt = 1 -> Put(base, "coursesUsedToSatisfy", None)
          [] OTHER   -> Put(base, "coursesUsedToSatisfy",
                            List([k \in 1..(opt - 2) |-> MakeCourse(n, k)]))

\* the requirement added as node n; every second one has no name
MakeRequirement(n) ==
    LET base == [requirementNumber |-> Num(n), entrySequence |-> Num(n + 20)]
    IN  IF n % 2 = 0 THEN base ELSE Put(base, "name", Name("r", n))

\* the "plan" of a group: 0 key missing (and no name), 1 null, 2 "", 3 a plan
PlanOpts == 0..3

MakeGroup(n, opt) ==
    LET base == [requirementGroupNumber |-> Num(n), entrySequence |-> Num(n + 10)]
        named == Put(base, "name", Name("g", n))
    IN  CASE opt = 0 -> base
          [] opt = 1 -> Put(named, "plan", None)
          [] opt = 2 -> Put(named, "plan", Str(<<>>))
          [] opt = 3 -> Put(named, "plan", Name("p", n))

\* d with x appended to the list under key (the key is created when missing)
Add(d, key, x) == Put(d, key, List(Append(ListOr(d, key), x)))

\* s with its last element replaced
SetLast(s, x) == [s EXCEPT ![Len(s)] = x]
Last(s) == s[Len(s)]

LastGroups(doc) == IF doc = <<>> THEN <<>> ELSE ListOr(Last(doc), "requirementGroups")
LastRequirements(doc) ==
    IF LastGroups(doc) = <<>> THEN <<>> ELSE ListOr(Last(LastGroups(doc)), "requirements")

AddGroup(doc, g) == SetLast(doc, Add(Last(doc), "requirementGroups", g))
AddRequirement(doc, r) ==
    LET g == Last(LastGroups(doc))
    IN  SetLast(doc, Put(Last(doc), "requirementGroups",
                         List(SetLast(LastGroups(doc), Add(g, "requirements", r)))))
AddLine(doc, l) ==
    LET g == Last(LastGroups(doc))
        r == Last(LastRequirements(doc))
        g2 == Put(g, "requirements",
                  List(SetLast(LastRequirements(doc), Add(r, "requirementLines", l))))
    IN  SetLast(doc, Put(Last(doc), "requirementGroups", List(SetLast(LastGroups(doc), g2))))

\* the documents one node larger than doc, the new node being node n
Extensions(doc, n) ==
    {Append(doc, EmptyDict)}
    \cup (IF doc = <<>> THEN {} ELSE {AddGroup(doc, MakeGroup(n, o)) : o \in PlanOpts})
    \cup (IF LastGroups(doc) = <<>> THEN {} ELSE {AddRequirement(doc, MakeRequirement(n))})
    \cup (IF LastRequirements(doc) = <<>> THEN {}
          ELSE {AddLine(doc, MakeLine(n, o)) : o \in CourseOpts})

RECURSIVE DocsOfSize(_)
DocsOfSize(n) ==
    IF n = 0 THEN {<<>>} ELSE UNION {Extensions(doc, n) : doc \in DocsOfSize(n - 1)}

Documents == UNION {DocsOfSize(n) : n \in 0..MaxNodes}

-----------------------------------------------------------------------------
(* main() of the two requirement scripts *)

Fieldnames == IF mode = "detail" THEN DetailFieldnames ELSE StructureFieldnames

InitReq ==
    /\ mode \in {"detail", "structure"}
    /\ pc = "load"
    /\ json_data = None
    /\ rows = <<>>
    /\ output_file = None
    /\ status = "running"
    /\ ScanIdle /\ HeaderIdle /\ IdsIdle /\ CatalogIdle /\ RecordIdle /\ SubjectsIdle

\* json_data = load_json_data(input_file); a missing or malformed file gives None
LoadJson ==
    /\ pc = "load"
    /\ \/ \E doc \in Documents : json_data' = List(doc)
       \/ json_data' = None
    /\ pc' = IF IsNone(json_data') THEN "exit" ELSE "convert"
    /\ status' = IF IsNone(json_data') THEN "load failed" ELSE status
    /\ UNCHANGED <<mode, rows, output_file, scanVars, headerVars, idsVars, catalogVars, recordVars, subjectVars>>

\* variant: the rows are put into the file while they are converted
Convert_WritesRows ==
    /\ pc = "convert"
    /\ rows' = IF mode = "detail"
               THEN convert_requirements_to_csv(json_data[2])
               ELSE extract_requirement_structure(json_data[2])
    /\ pc' = IF rows' = <<>> THEN "exit" ELSE "save"
    /\ status' = IF rows' = <<>> THEN "no data" ELSE status
    /\ output_file' = List(<<Header(Fieldnames)>> \o rows')
    /\ UNCHANGED <<mode, json_data, scanVars, headerVars, idsVars, catalogVars, recordVars, subjectVars>>

\* csv_rows = convert_requirements_to_csv(json_data), resp.
\* structure_rows = extract_requirement_structure(json_data); no rows: return
Convert ==
    /\ pc = "convert"
    /\ rows' = IF mode = "detail"
               THEN convert_requirements_to_csv(json_data[2])
               ELSE extract_requirement_structure(json_data[2])
    /\ pc' = IF rows' = <<>> THEN "exit" ELSE "save"
    /\ status' = IF rows' = <<>> THEN "no data" ELSE status
    /\ UNCHANGED <<mode, json_data, output_file, scanVars, headerVars, idsVars, catalogVars, recordVars, subjectVars>>

\* success = save_to_csv(rows, output_file): open(..., "w") creates or truncates
\* the file, the header and the rows are written; any exception gives False
SaveToCsv ==
    /\ pc = "save"
    /\ \/ /\ output_file' = List(<<Header(Fieldnames)>> \o rows)
          /\ status' = "completed"
       \/ /\ output_file' = output_file          \* open() raised
          /\ status' = "failed"
       \/ /\ output_file' = List(<<>>)           \* a write raised
          /\ status' = "failed"
    /\ pc' = "exit"
    /\ UNCHANGED <<mode, json_data, rows, scanVars, headerVars, idsVars, catalogVars, recordVars, subjectVars>>

NextReq == LoadJson \/ Convert \/ SaveToCsv

SpecReq == InitReq /\ [][NextReq]_vars

-----------------------------------------------------------------------------
(* Properties of the requirement normalizer *)

\* the requirement lines of a document in document order, each with the group
\* and the requirement that enclose it
AllLines(doc) ==
    FlatMap(LAMBDA top :
        FlatMap(LAMBDA g :
            FlatMap(LAMBDA r :
                FlatMap(LAMBDA l : <<[g |-> g, r |-> r, l |-> l]>>,
                        IF "requirementLines" \in DOMAIN r THEN r["requirementLines"][2] ELSE <<>>),
                    IF "requirements" \in DOMAIN g THEN g["requirements"][2] ELSE <<>>),
                IF "requirementGroups" \in DOMAIN top THEN top["requirementGroups"][2] ELSE <<>>),
            doc)

\* the satisfying courses of a line: none when the list is missing, null or empty
CoursesOf(line) ==
    IF "coursesUsedToSatisfy" \in DOMAIN line /\ line["coursesUsedToSatisfy"][1] = "list"
    THEN line["coursesUsedToSatisfy"][2] ELSE <<>>

RowsOfLine(line) == Max(1, Len(CoursesOf(line)))

RECURSIVE RowsBefore(_, _)
\* the number of rows the lines before the k-th line account for
RowsBefore(lines, k) ==
    IF k <= 1 THEN 0 ELSE RowsBefore(lines, k - 1) + RowsOfLine(lines[k - 1].l)

\* the conversion has run
Converted(m) == mode = m /\ ~IsNone(json_data) /\ pc \notin {"load", "convert"}

InputLines == AllLines(json_data[2])

\* C1: in detail mode the number of rows is the sum over the requirement lines of
\* max(1, number of satisfying courses); a line without satisfying courses (list
\* missing, null or empty) has exactly one row, whose ten course fields are null
C1_RowCount ==
    Converted("detail") =>
        /\ Len(rows) = RowsBefore(InputLines, Len(InputLines) + 1)
        /\ \A k \in 1..Len(InputLines) :
              Len(CoursesOf(InputLines[k].l)) = 0 =>
                 LET row == rows[RowsBefore(InputLines, k) + 1]
                 IN  /\ \A col \in CourseColumns : row[col] = None
                     /\ row.description = Get(InputLines[k].l, "description")
                     /\ RowsBefore(InputLines, k + 1) = RowsBefore(InputLines, k) + 1

C1_Witness ==
    /\ Converted("detail")
    /\ \E k \in 1..Len(InputLines) : ~("coursesUsedToSatisfy" \in DOMAIN InputLines[k].l)
    /\ \E k \in 1..Len(InputLines) : Len(CoursesOf(InputLines[k].l)) = 2
    /\ Len(rows) = 3

\* C2: in detail mode the rows of one line carry the group, requirement and line
\* metadata of that line, the same in each of them, the k-th row of a line carries
\* the fields of the line's k-th satisfying course, and the rows are in document order
C2_RowContent ==
    Converted("detail") =>
        /\ Len(rows) = RowsBefore(InputLines, Len(InputLines) + 1)
        /\ \A k \in 1..Len(InputLines) :
              LET e == InputLines[k]
                  first == RowsBefore(InputLines, k) + 1
              IN  \A i \in 1..RowsOfLine(e.l) :
                     LET row == rows[first + i - 1]
                     IN  /\ row.group_name =
                               (IF "name" \in DOMAIN e.g THEN e.g.name ELSE UnnamedGroup)
                         /\ row.is_main_requirement = rows[first].is_main_requirement
                         /\ row.requirement_name = Get(e.r, "name")
                         /\ row.description = Get(e.l, "description")
                         /\ row.status = Get(e.l, "status")
                         /\ row.units_required = Get(e.l, "unitsRequired")
                         /\ row.units_used = Get(e.l, "unitsUsed")
                         /\ row.units_needed = Get(e.l, "unitsNeeded")
                         /\ CoursesOf(e.l) # <<>> =>
                               \A c \in 1..Len(COURSE_FIELDS) :
                                  row[COURSE_FIELDS[c][1]] =
                                      Get(CoursesOf(e.l)[i], COURSE_FIELDS[c][2])

C2_Witness ==
    /\ Converted("detail")
    /\ \E k \in 2..Len(InputLines) :
          /\ Len(CoursesOf(InputLines[k].l)) = 2
          /\ rows[RowsBefore(InputLines, k) + 1].term_taken
                # rows[RowsBefore(InputLines, k) + 2].term_taken

\* C3: in structure mode every requirement line has exactly one row, whatever its
\* satisfying courses, and the row carries the numbers and entry sequences of the
\* group and the requirement that enclose the line
C3_OneRowPerLine ==
    Converted("structure") =>
        /\ Len(rows) = Len(InputLines)
        /\ \A k \in 1..Len(InputLines) :
              LET e == InputLines[k]
              IN  /\ rows[k].requirement_group_number = Get(e.g, "requirementGroupNumber")
                  /\ rows[k].entry_sequence = Get(e.g, "entrySequence")
                  /\ rows[k].requirement_number = Get(e.r, "requirementNumber")
                  /\ rows[k].requirement_entry_sequence = Get(e.r, "entrySequence")
                  /\ rows[k].line_name = Get(e.l, "name")

C3_Witness ==
    /\ Converted("structure")
    /\ Len(rows) = 2
    /\ \E k \in 1..Len(InputLines) : Len(CoursesOf(InputLines[k].l)) = 2

\* the line each row comes from: in detail mode a line has max(1, courses) rows
RowOwner(lines) ==
    IF mode = "detail"
    THEN FlatMap(LAMBDA k : [i \in 1..RowsOfLine(lines[k].l) |-> k], [k \in 1..Len(lines) |-> k])
    ELSE [k \in 1..Len(lines) |-> k]

\* the group has a "plan" that is present and not empty
HasPlan(g) == "plan" \in DOMAIN g /\ g.plan # None /\ g.plan # Str(<<>>)

\* C4: in both modes a row's is_main_requirement is true iff the group that
\* encloses the row's line has a "plan" that is present and not empty
C4_MainRequirement ==
    (Converted("detail") \/ Converted("structure")) =>
        /\ Len(rows) = Len(RowOwner(InputLines))
        /\ \A n \in 1..Len(rows) :
              rows[n].is_main_requirement = Bool(HasPlan(InputLines[RowOwner(InputLines)[n]].g))

C4_Witness ==
    /\ Converted("detail")
    /\ Len(rows) = 2
    /\ rows[2].is_main_requirement = Bool(TRUE)
    /\ Len(json_data[2]) = 1
    /\ Len(LastGroups(json_data[2])) = 2
    /\ Get(LastGroups(json_data[2])[1], "plan") = Str(<<>>)

-----------------------------------------------------------------------------
(* Course-catalog run: extract_course_ids of scrape_course_catalog.py *)

\* mutant: the pattern has lost its "$"
CodeLengths_NoEndAnchor(s) ==
    {k \in 0..(Len(s) - 2) : s[k + 1] = "-" /\ IsDigit(s[k + 2])}

\* re.match(r"^(.*?)-\d+$", s): the lengths the lazy group can have
CodeLengths(s) ==
    {k \in 0..(Len(s) - 2) : s[k + 1] = "-" /\ \A i \in (k + 2)..Len(s) : IsDigit(s[i])}

\* verification_code: group 1 of the match, None without a match
VerificationCode(notification_string) ==
    IF IsNone(notification_string) \/ CodeLengths(notification_string[2]) = {} THEN None
    ELSE Str(SubSeq(notification_string[2], 1, SetMin(CodeLengths(notification_string[2]))))

\* The search document is the sequence of its pieces: a piece <<"show", id, offer>> is
\* a match of the showCourseDetail pattern, a piece <<"notif", text>> a match of the
\* notificationString pattern, any other piece matches neither.
ShowMatches(doc) == SelectSeq(doc, LAMBDA piece : piece[1] = "show")
NotificationMatches(doc) == SelectSeq(doc, LAMBDA piece : piece[1] = "notif")

extract_course_ids(doc) ==
    LET ids == ShowMatches(doc)
        notifications == NotificationMatches(doc)
    IN  [i \in 1..Len(ids) |->
            LET notification_string ==
                    IF i <= Len(notifications) THEN notifications[i][2] ELSE None
            IN  <<ids[i][2], ids[i][3], notification_string,
                  VerificationCode(notification_string)>>]

-----------------------------------------------------------------------------
(* extract_course_ids applied to one search document *)

MaxPieces == 3         \* pieces of a search document

NotificationTexts ==
    {<<"C", "S", "-", "1", "1">>, <<"A", "-", "B", "-", "2">>, <<"C", "-", "1", "-", "2">>, <<"C", "S">>,
     <<"C", "S", "-">>, <<"C", "S", "-", "1", "A">>, <<"-", "7">>, <<>>}

Pieces ==
    {<<"show", Str(<<"1", "0", "1">>), Str(<<"1">>)>>,
     <<"show", Str(<<"2", "0", "2">>), Str(<<"2">>)>>,
     <<"text", Sym("<div>")>>}
    \cup {<<"notif", Str(t)>> : t \in NotificationTexts}

SearchDocuments == UNION {[1..n -> Pieces] : n \in 0..MaxPieces}

InitIds ==
    /\ pc = "call"
    /\ html \in SearchDocuments
    /\ course_entries = <<>>
    /\ output_file = None /\ status = "running"
    /\ ReqIdle /\ ScanIdle /\ HeaderIdle /\ CatalogIdle /\ RecordIdle /\ SubjectsIdle

ExtractCourseIds ==
    /\ pc = "call"
    /\ course_entries' = extract_course_ids(html)
    /\ pc' = "return"
    /\ UNCHANGED <<output_file, status, html, reqVars, scanVars, headerVars, catalogVars, recordVars, subjectVars>>

NextIds == ExtractCourseIds

SpecIds == InitIds /\ [][NextIds]_vars

\* the pieces of one kind, in document order
PiecesOfKind(doc, kind) ==
    LET at == {i \in 1..Len(doc) : doc[i][1] = kind}
    IN  [n \in 1..Cardinality(at) |->
            doc[CHOOSE i \in at : Cardinality({j \in at : j < i}) = n - 1]]

\* the number of digits s ends with
RECURSIVE TrailingDigits(_)
TrailingDigits(s) ==
    IF s # <<>> /\ IsDigit(s[Len(s)]) THEN 1 + TrailingDigits(SubSeq(s, 1, Len(s) - 1)) ELSE 0

\* s ends with '-<digits>'
HasCodeSuffix(s) ==
    /\ TrailingDigits(s) >= 1
    /\ Len(s) > TrailingDigits(s)
    /\ s[Len(s) - TrailingDigits(s)] = "-"

\* C9: extract_course_ids returns one candidate per (course_id, offer_number) match in
\* document order, the i-th paired with the i-th notification string (absent when there
\* are fewer); its verification code is the part of the notification string before a
\* trailing '-<digits>', absent when the string is absent or does not end that way
C9_Candidates ==
    pc = "return" =>
        LET shows == PiecesOfKind(html, "show")
            notifs == PiecesOfKind(html, "notif")
        IN  /\ Len(course_entries) = Len(shows)
            /\ \A i \in 1..Len(course_entries) :
                  /\ course_entries[i][1] = shows[i][2]
                  /\ course_entries[i][2] = shows[i][3]
                  /\ course_entries[i][3] = IF i <= Len(notifs) THEN notifs[i][2] ELSE None
                  /\ course_entries[i][4] =
                        IF i <= Len(notifs) /\ HasCodeSuffix(notifs[i][2][2])
                        THEN Str(SubSeq(notifs[i][2][2], 1,
                                        Len(notifs[i][2][2]) - TrailingDigits(notifs[i][2][2]) - 1))
                        ELSE None

C9_Witness ==
    /\ pc = "return"
    /\ Len(course_entries) = 2
    /\ course_entries[1][4] = Str(<<"C", "-", "1">>)
    /\ course_entries[2][3] = None

-----------------------------------------------------------------------------
(* Course-catalog run: extract_requirement_text and extract_course_details *)

\* the first position where sub starts in s, 0 when sub is not in s
Find(s, sub) ==
    LET at == {i \in 1..(Len(s) - Len(sub) + 1) : SubSeq(s, i, i + Len(sub) - 1) = sub}
    IN  IF at = {} THEN 0 ELSE SetMin(at)

\* sub in s
Contains(s, sub) == Find(s, sub) # 0

RECURSIVE LStripChars(_, _)
LStripChars(s, cs) == IF s # <<>> /\ Head(s) \in cs THEN LStripChars(Tail(s), cs) ELSE s

RECURSIVE RStripChars(_, _)
RStripChars(s, cs) ==
    IF s # <<>> /\ s[Len(s)] \in cs THEN RStripChars(SubSeq(s, 1, Len(s) - 1), cs) ELSE s

\* s.strip(cs)
StripChars(s, cs) == RStripChars(LStripChars(s, cs), cs)

RECURSIVE Join(_, _)
\* sep.join(list)
Join(sep, list) ==
    IF list = <<>> THEN <<>>
    ELSE IF Len(list) = 1 THEN list[1]
    ELSE list[1] \o sep \o Join(sep, Tail(list))

KwCorequisite == <<"C", "o", "r", "e", "q", "u", "i", "s", "i", "t", "e", ":">>
KwPrerequisite == <<"P", "r", "e", "r", "e", "q", "u", "i", "s", "i", "t", "e", ":">>
KwNotOpen ==
    <<"N", "o", "t", " ", "o", "p", "e", "n", " ", "t", "o", " ", "s", "t", "u", "d", "e", "n", "t", "s", " ">> \o
    <<"w", "h", "o", " ", "h", "a", "v", "e", " ", "e", "a", "r", "n", "e", "d", " ", "c", "r", "e", "d", "i", "t", " ", "f", "o", "r">>

\* part = part.split(other_keyword)[0] when other_keyword is another keyword found in part
CutAt(part, other_keyword, keyword) ==
    IF other_keyword # keyword /\ Contains(part, other_keyword)
    THEN SubSeq(part, 1, Find(part, other_keyword) - 1)
    ELSE part

extract_requirement_text(text, keyword) ==
    IF ~Contains(text, keyword) THEN None
    ELSE LET part == SubSeq(text, Find(text, keyword) + Len(keyword), Len(text))
             cut == CutAt(CutAt(CutAt(part, KwCorequisite, keyword), KwPrerequisite, keyword),
                          KwNotOpen, keyword)
         IN  Str(Strip(StripChars(cut, {":", ";", " "})))

\* re.search(r"(\d{4}[A-Z]?)\s+-\s+", s): the matches as <<start, length of group 1>>
TitleMatches(s) ==
    {m \in (1..Len(s)) \X {4, 5} :
        LET p == m[1]
            n == m[2]
        IN  /\ p + n - 1 <= Len(s)
            /\ \A i \in p..(p + 3) : IsDigit(s[i])
            /\ n = 5 => IsUpper(s[p + 4])
            /\ \E a \in (p + n)..Len(s), b \in (p + n + 2)..Len(s) :
                  /\ a + 1 < b
                  /\ \A i \in (p + n)..a : IsSpace(s[i])
                  /\ s[a + 1] = "-"
                  /\ \A i \in (a + 2)..b : IsSpace(s[i])}

\* the leftmost match, the optional letter taken when it can be
FirstTitleMatch(s) ==
    CHOOSE m \in TitleMatches(s) :
        \A o \in TitleMatches(s) : m[1] < o[1] \/ (m[1] = o[1] /\ m[2] >= o[2])

\* The detail document of a course:
\*   error    "none", "transport" (requests.get raises) or "parse" (an exception
\*            while the page is parsed)
\*   title    None or the text of "#courseDetailDialog h1"
\*   table    the rows of ".detailPanel .nameValueTable": right (the row is in
\*            #rightSection), strong (None or the text of its strong tag), tds (the
\*            texts of its cells)
\*   attrs    the texts of the divs beside the Attributes label
\*   clear    there is a div of class "clear"
\*   siblings the divs that follow it: class and text

\* detail_map / enrollment_map: the loop over the rows, later rows overwriting
RECURSIVE NameValueMap(_, _)
NameValueMap(trs, acc) ==
    IF trs = <<>> THEN acc
    ELSE LET row == Head(trs)
         IN  NameValueMap(Tail(trs),
                 IF ~IsNone(row.strong) /\ Len(row.tds) > 1
                 THEN Put(acc, StripChars(row.strong[2], {":"}), row.tds[2])
                 ELSE acc)

RECURSIVE SubBackslashed(_)
\* re.sub(r"\\(.*?\\)", "", s): every span from a backslash to the next backslash on
\* the same line is removed
SubBackslashed(s) ==
    LET spans == {m \in (1..Len(s)) \X (1..Len(s)) :
                     /\ m[1] < m[2] /\ s[m[1]] = "\\" /\ s[m[2]] = "\\"
                     /\ \A i \in (m[1] + 1)..(m[2] - 1) : s[i] \notin {"\\", "\n"}}
    IN  IF spans = {} THEN s
        ELSE LET m == CHOOSE x \in spans : \A o \in spans : x[1] <= o[1]
             IN  SubSeq(s, 1, m[1] - 1) \o SubBackslashed(SubSeq(s, m[2] + 1, Len(s)))

\* the components text with the spans removed and stripped
Components(v) == IF v[1] = "str" THEN Str(Strip(SubBackslashed(v[2]))) ELSE v

\* text.strip() of a cell text
StripText(v) == IF v[1] = "str" THEN Str(Strip(v[2])) ELSE v

\* the chars of a cell text held as characters, empty otherwise
TextChars(v) == IF v[1] = "str" THEN v[2] ELSE <<>>

\* the attribute table (config/mappings/attribute_mappings.py)
ATTRIBUTE_MAP ==
    ("AXLE: Humanities and the Creative Arts" :> <<"H", "C", "A">>) @@
    ("AXLE: Mathematics and Natural Sciences" :> <<"M", "N", "S">>) @@
    ("Blank" :> <<>>)

\* mutant: the four tests are an if/elif chain, the first match wins
TermTokens_FirstMatchOnly(term) ==
    IF Contains(term, <<"F", "a", "l", "l">>) THEN << <<"F", "A">> >>
    ELSE IF Contains(term, <<"S", "p", "r", "i", "n", "g">>) THEN << <<"S", "P">> >>
    ELSE IF Contains(term, <<"S", "u", "m", "m", "e", "r">>) THEN << <<"S", "U">> >>
    ELSE IF Contains(term, <<"A", "l", "t", "e", "r", "n", "a", "t", "e", " ", "Y", "e", "a", "r", "s">>)
    THEN << <<"A", "L", "T">> >> ELSE <<>>

\* the term tokens in the order of the four tests
TermTokens(term) ==
    (IF Contains(term, <<"F", "a", "l", "l">>) THEN << <<"F", "A">> >> ELSE <<>>)
    \o (IF Contains(term, <<"S", "p", "r", "i", "n", "g">>) THEN << <<"S", "P">> >> ELSE <<>>)
    \o (IF Contains(term, <<"S", "u", "m", "m", "e", "r">>) THEN << <<"S", "U">> >> ELSE <<>>)
    \o (IF Contains(term, <<"A", "l", "t", "e", "r", "n", "a", "t", "e", " ", "Y", "e", "a", "r", "s">>)
        THEN << <<"A", "L", "T">> >> ELSE <<>>)

RECURSIVE MappedAttributes(_)
\* the loop over attr_divs: the codes of the texts that have a non-empty mapping
MappedAttributes(divs) ==
    IF divs = <<>> THEN <<>>
    ELSE LET attr_text == Head(divs)
             attr_val == IF attr_text[1] = "sym" /\ attr_text[2] \in DOMAIN ATTRIBUTE_MAP
                         THEN Str(ATTRIBUTE_MAP[attr_text[2]]) ELSE None
         IN  (IF Truthy(attr_val) THEN <<attr_val[2]>> ELSE <<>>) \o MappedAttributes(Tail(divs))

\* the first of divs with the class, 0 when there is none
FirstOfClass(divs, class) ==
    IF \E i \in 1..Len(divs) : divs[i].class = class
    THEN SetMin({i \in 1..Len(divs) : divs[i].class = class}) ELSE 0

\* result["description"]
Description(page) ==
    LET header == IF page.clear THEN FirstOfClass(page.siblings, "detailHeader") ELSE 0
    IN  IF header # 0 /\ Contains(page.siblings[header].text[2], <<"D", "e", "s", "c", "r", "i", "p", "t", "i", "o", "n">>)
        THEN LET after == SubSeq(page.siblings, header + 1, Len(page.siblings))
                 panel == FirstOfClass(after, "detailPanel")
             IN  IF panel # 0 THEN Str(Strip(after[panel].text[2])) ELSE Str(<<>>)
        ELSE Str(<<>>)

K_School == <<"S", "c", "h", "o", "o", "l">>
K_Career == <<"C", "a", "r", "e", "e", "r">>
K_Units == <<"U", "n", "i", "t", "s">>
K_Components == <<"C", "o", "m", "p", "o", "n", "e", "n", "t", "s">>
K_TypicallyOffered == <<"T", "y", "p", "i", "c", "a", "l", "l", "y", " ", "O", "f", "f", "e", "r", "e", "d">>
K_Requirement == <<"R", "e", "q", "u", "i", "r", "e", "m", "e", "n", "t">>

extract_course_details(page, subject_code, course_id) ==
    IF IsNone(page.title) THEN None
    ELSE LET title_text == Strip(page.title[2])
         IN  IF TitleMatches(title_text) = {} THEN None
             ELSE LET m == FirstTitleMatch(title_text)
                      catalog_number == SubSeq(title_text, m[1], m[1] + m[2] - 1)
                      sep == catalog_number \o <<" ", "-", " ">>
                  IN  IF ~Contains(title_text, sep) THEN None          \* IndexError
                      ELSE LET long_title ==
                                   Strip(SubSeq(title_text, Find(title_text, sep) + Len(sep),
                                                Len(title_text)))
                               detail_map == NameValueMap(page.table, EmptyDict)
                               enrollment_map ==
                                   NameValueMap(SelectSeq(page.table, LAMBDA row : row.right),
                                                EmptyDict)
                               term == TextChars(GetOr(enrollment_map, K_TypicallyOffered, Str(<<>>)))
                               requirements_text ==
                                   TextChars(GetOr(enrollment_map, K_Requirement, Str(<<>>)))
                               attributes == MappedAttributes(page.attrs)
                           IN  Dict(
                               [course_id      |-> course_id,
                                subject        |-> subject_code,
                                catalog_number |-> Str(catalog_number),
                                display_name   |-> Str(subject_code[2] \o <<" ">> \o catalog_number),
                                long_title     |-> Str(long_title),
                                school_code    |-> MapGet(SCHOOL_MAP, Get(detail_map, K_School)),
                                career_code    |-> MapGet(CAREER_MAP, Get(detail_map, K_Career)),
                                units_earned   |-> StripText(GetOr(detail_map, K_Units, Str(<<"0">>))),
                                component_code |->
                                    MapGet(COMPONENT_MAP,
                                           Components(GetOr(detail_map, K_Components, Str(<<>>)))),
                                term_offered   |-> Str(Join(<<",", " ">>, TermTokens(term))),
                                all_requirements |->
                                    IF requirements_text # <<>> THEN Str(requirements_text) ELSE None,
                                corequisites   |-> extract_requirement_text(requirements_text, KwCorequisite),
                                prerequisites  |-> extract_requirement_text(requirements_text, KwPrerequisite),
                                anti_requirements |->
                                    extract_requirement_text(requirements_text, KwNotOpen),
                                attributes     |->
                                    IF attributes # <<>> THEN Str(Join(<<",", " ">>, attributes))
                                    ELSE None,
                                description    |-> Description(page)])

-----------------------------------------------------------------------------
(* Course-catalog run: main() of scrape_course_catalog.py *)

\* the subject table (config/mappings/subject_mappings.py), an excerpt in the order
\* of the table: <<subject_name, subject_code>>
SUBJECT_MAP ==
    << <<Sym("Computer Science"), Str(<<"C", "S">>)>>,
       <<Sym("Mathematics"), Str(<<"M", "A", "T", "H">>)>> >>

\* The response to the search GET of one subject: error "transport" when
\* requests.get raises; marker when the text holds "No courses found."; doc the
\* pieces of the text as extract_course_ids reads them
SearchResponse(error, marker, doc) == [error |-> error, marker |-> marker, doc |-> doc]

Show(id, offer) == <<"show", Str(id), Str(offer)>>
Notif(text) == <<"notif", Str(text)>>

SearchResponses ==
    {SearchResponse("transport", FALSE, <<>>),
     SearchResponse("none", TRUE, <<>>),
     \* a course of each subject, one whose code only begins like a subject code,
     \* and one without a notification string
     SearchResponse("none", FALSE,
        <<Notif(<<"C", "S", "-", "1", "1">>), Show(<<"1", "0", "1">>, <<"1">>),
          Notif(<<"M", "A", "T", "H", "-", "2", "2">>), Show(<<"2", "0", "2">>, <<"1">>),
          Notif(<<"C", "S", "X", "-", "3", "3">>), Show(<<"3", "0", "3">>, <<"2">>),
          Show(<<"4", "0", "4">>, <<"1">>)>>),
     \* two courses of the first subject around one whose string has no number
     SearchResponse("none", FALSE,
        <<Notif(<<"C", "S", "-", "1", "1">>), Show(<<"1", "0", "1">>, <<"1">>),
          Notif(<<"C", "S">>), Show(<<"5", "0", "5">>, <<"1">>),
          Notif(<<"C", "S", "-", "1", "2">>), Show(<<"6", "0", "6">>, <<"1">>)>>),
     \* two courses of the second subject
     SearchResponse("none", FALSE,
        <<Notif(<<"M", "A", "T", "H", "-", "2", "1">>), Show(<<"7", "0", "7">>, <<"1">>),
          Notif(<<"M", "A", "T", "H", "-", "2", "2">>), Show(<<"2", "0", "2">>, <<"1">>)>>)}

\* the response to the detail GET of one candidate
DetailPage(error, title, table, attrs, clear, siblings) ==
    [error |-> error, title |-> title, table |-> table, attrs |-> attrs,
     clear |-> clear, siblings |-> siblings]

\* a row of a name/value table; its first cell holds the label
Row(right, strong, tds) == [right |-> right, strong |-> strong, tds |-> tds]
Div(class, text) == [class |-> class, text |-> Str(text)]

DetailPages ==
    {DetailPage("transport", None, <<>>, <<>>, FALSE, <<>>),
     DetailPage("parse", None, <<>>, <<>>, FALSE, <<>>),
     \* no heading
     DetailPage("none", None, <<>>, <<>>, FALSE, <<>>),
     \* a heading without a catalog number
     DetailPage("none", Str(<<"I", "n", "t", "r", "o", " ", "S", "e", "m", "i", "n", "a", "r">>), <<>>, <<>>, FALSE, <<>>),
     \* a heading the pattern accepts and the split does not find
     DetailPage("none", Str(<<"1", "1", "0", "1", " ", " ", "-", " ", "I", "n", "t", "r", "o">>), <<>>, <<>>, FALSE, <<>>),
     \* a heading only
     DetailPage("none", Str(<<" ", "1", "1", "0", "1", " ", "-", " ", "I", "n", "t", "r", "o", " ">>), <<>>, <<>>, FALSE, <<>>),
     \* a full page
     DetailPage("none", Str(<<"2", "3", "0", "1", "W", " ", "-", " ", "L", "o", "g", "i", "c">>),
        <<Row(FALSE, Str(<<"S", "c", "h", "o", "o", "l", ":">>),
              <<Sym("label"), Sym("School of Engineering")>>),
          Row(FALSE, Str(<<"C", "a", "r", "e", "e", "r", ":">>),
              <<Sym("label"), Sym("Undergraduate")>>),
          Row(FALSE, Str(<<"U", "n", "i", "t", "s", ":">>), <<Sym("label"), Str(<<"3", ".", "0">>)>>),
          Row(FALSE, Str(<<"C", "o", "m", "p", "o", "n", "e", "n", "t", "s", ":">>), <<Sym("label"), Sym("Lecture")>>),
          Row(FALSE, None, <<Sym("label"), Str(<<"x">>)>>),
          Row(TRUE, Str(<<"T", "y", "p", "i", "c", "a", "l", "l", "y", " ", "O", "f", "f", "e", "r", "e", "d", ":">>),
              <<Sym("label"), Str(<<"F", "a", "l", "l", ",", " ", "S", "p", "r", "i", "n", "g">>)>>),
          Row(TRUE, Str(<<"R", "e", "q", "u", "i", "r", "e", "m", "e", "n", "t", ":">>),
              <<Sym("label"), Str(<<"P", "r", "e", "r", "e", "q", "u", "i", "s", "i", "t", "e", ":", " ", "C", "S", " ", "1", "1", "0", "1", ";", " ", "C", "o", "r", "e", "q", "u", "i", "s", "i", "t", "e", ":", " ", "M", "A", "T", "H", " ", "1", "3", "0", "0">>)>>),
          Row(TRUE, Str(<<"A", "t", "t", "r", "i", "b", "u", "t", "e", "s", ":">>), <<Sym("label")>>)>>,
        <<Sym("AXLE: Mathematics and Natural Sciences"), Sym("Blank"), Sym("Other")>>,
        TRUE,
        <<Div("detailHeader", <<"D", "e", "s", "c", "r", "i", "p", "t", "i", "o", "n">>),
          Div("detailPanel", <<" ", "P", "r", "o", "o", "f", "s", ".", " ">>)>>)}

InitCatalog ==
    /\ pc = "open"
    /\ output_file = None
    /\ status = "running"
    /\ subject_index = 1
    /\ entry_index = 0
    /\ courses_processed = 0
    /\ total_courses_found = 0
    /\ fetches = <<>>
    /\ html = <<>>
    /\ course_entries = <<>>
    /\ ReqIdle /\ ScanIdle /\ HeaderIdle /\ RecordIdle /\ SubjectsIdle

\* with open(csv_path, "w") ...: writer.writeheader(); a failure here ends main()
OpenCsv ==
    /\ pc = "open"
    /\ \/ /\ output_file' = List(<<Header(csv_keys)>>)
          /\ pc' = IF SUBJECT_MAP = <<>> THEN "finish" ELSE "subject"
          /\ UNCHANGED status
       \/ /\ output_file' \in {None, List(<<>>)}
          /\ status' = "crashed"
          /\ pc' = "exit"
    /\ UNCHANGED <<reqVars, scanVars, headerVars, idsVars, catalogVars, recordVars, subjectVars>>

\* where main() is after the body of the subject loop for subject i
AfterSubject(i) == IF i < Len(SUBJECT_MAP) THEN "subject" ELSE "finish"

\* a GET as the log holds it; write_error: writer.writerow raised for its row
Fetch(kind, subject, entry, candidate, response, write_error) ==
    [kind |-> kind, subject |-> subject, entry |-> entry, candidate |-> candidate,
     response |-> response, write_error |-> write_error]

\* the search of one subject: an exception goes to the outer except, the marker
\* to continue, otherwise the candidates are extracted
SearchSubject ==
    /\ pc = "subject"
    /\ \E response \in SearchResponses :
          /\ fetches' = Append(fetches, Fetch("search", subject_index, 0, None, response, FALSE))
          /\ IF response.error # "none" \/ response.marker
             THEN /\ subject_index' = subject_index + 1
                  /\ pc' = AfterSubject(subject_index)
                  /\ UNCHANGED <<course_entries, entry_index, courses_processed>>
             ELSE /\ course_entries' = extract_course_ids(response.doc)
                  /\ courses_processed' = 0
                  /\ entry_index' = 1
                  /\ IF course_entries' = <<>>
                     THEN /\ subject_index' = subject_index + 1
                          /\ pc' = AfterSubject(subject_index)
                     ELSE /\ pc' = "candidate"
                          /\ UNCHANGED subject_index
    /\ UNCHANGED <<output_file, status, html, total_courses_found, reqVars, scanVars, headerVars, recordVars, subjectVars>>

\* mutant: a candidate without a verification code is taken as well
BelongsToSubject_AbsentPasses(verification_code, subject_code) ==
    IsNone(verification_code) \/ verification_code = subject_code

\* not (verification_code != subject_code)
BelongsToSubject(verification_code, subject_code) == verification_code = subject_code

\* mutant: an exception while a candidate is handled ends the candidate loop
NextEntry_StopsOnError(index, entries, raised) ==
    IF raised THEN Len(entries) + 1 ELSE index + 1

\* the candidate the loop takes after the one at index; the inner except only logs
NextEntry(index, entries, raised) == index + 1

\* the candidate loop moves to next; past the last candidate the subject is completed
Advance(next) ==
    /\ entry_index' = next
    /\ IF next > Len(course_entries)
       THEN /\ subject_index' = subject_index + 1
            /\ pc' = AfterSubject(subject_index)
       ELSE /\ pc' = "candidate"
            /\ UNCHANGED subject_index

\* if verification_code != subject_code: continue
SkipCandidate ==
    /\ pc = "candidate"
    /\ ~BelongsToSubject(course_entries[entry_index][4], SUBJECT_MAP[subject_index][2])
    /\ Advance(entry_index + 1)
    /\ UNCHANGED <<output_file, status, html, course_entries, courses_processed,
                   total_courses_found, fetches, reqVars, scanVars, headerVars, recordVars, subjectVars>>

\* the inner try: the detail GET, extract_course_details, and the row when there is
\* course data; an exception of writer.writerow is caught like any other
ProcessCandidate ==
    /\ pc = "candidate"
    /\ BelongsToSubject(course_entries[entry_index][4], SUBJECT_MAP[subject_index][2])
    /\ \E page \in DetailPages, write_error \in BOOLEAN :
          LET candidate == course_entries[entry_index]
              subject_code == SUBJECT_MAP[subject_index][2]
              raised == page.error # "none"
              course_data == IF raised THEN None
                             ELSE extract_course_details(page, subject_code, candidate[1])
          IN  /\ write_error => Truthy(course_data)
              /\ fetches' = Append(fetches, Fetch("detail", subject_index, entry_index,
                                                  candidate, page, write_error))
              /\ IF Truthy(course_data)
                 THEN /\ courses_processed' = courses_processed + 1
                      /\ total_courses_found' = total_courses_found + 1
                      /\ output_file' = IF write_error THEN output_file
                                        ELSE List(Append(output_file[2], course_data[2]))
                 ELSE UNCHANGED <<courses_processed, total_courses_found, output_file>>
              /\ Advance(NextEntry(entry_index, course_entries, raised \/ write_error))
    /\ UNCHANGED <<status, html, course_entries, reqVars, scanVars, headerVars, recordVars, subjectVars>>

\* the with block is left and the totals are printed
Finish ==
    /\ pc = "finish"
    /\ status' = "completed"
    /\ pc' = "exit"
    /\ UNCHANGED <<output_file, reqVars, scanVars, headerVars, idsVars, catalogVars, recordVars, subjectVars>>

NextCatalog == OpenCsv \/ SearchSubject \/ SkipCandidate \/ ProcessCandidate \/ Finish

SpecCatalog == InitCatalog /\ [][NextCatalog]_vars

\* every GET returns or raises, and main() runs on
FairSpecCatalog == SpecCatalog /\ WF_vars(NextCatalog)

-----------------------------------------------------------------------------
(* Properties of the course-catalog run *)

SubjectCode(i) == SUBJECT_MAP[i][2]

\* the GETs of one kind, in request order
Fetched(kind) == SelectSeq(fetches, LAMBDA e : e.kind = kind)

\* the detail GETs made for subject i, in request order
DetailsOf(i) == SelectSeq(fetches, LAMBDA e : e.kind = "detail" /\ e.subject = i)

\* the subject loop has left subject i
SubjectDone(i) == i < subject_index

\* the search of a subject fails or reports no results
SearchFailed(response) == response.error # "none" \/ response.marker

\* the candidates of a search response whose verification code is that of subject i
Matching(response, i) ==
    SelectSeq(extract_course_ids(response.doc), LAMBDA c : c[4] = SubjectCode(i))

\* handling a candidate fails: the detail GET raises, parsing raises, the heading
\* is missing or malformed, or the row cannot be written
CandidateFails(e) ==
    \/ e.response.error # "none"
    \/ e.write_error
    \/ IsNone(extract_course_details(e.response, SubjectCode(e.subject), e.candidate[1]))

\* the detail GETs that did not fail
Succeeded == SelectSeq(Fetched("detail"), LAMBDA e : ~CandidateFails(e))

\* the rows of the output file after the header
FileRows == IF IsNone(output_file) \/ output_file[2] = <<>> THEN <<>> ELSE Tail(output_file[2])

C7_Catalog ==
    LET searched == Fetched("search")
    IN  \* the subjects are searched in table order, none left out
        /\ \A n \in 1..Len(searched) : searched[n].subject = n
        /\ \A i \in 1..Len(SUBJECT_MAP) : SubjectDone(i) => i <= Len(searched)
        /\ pc \in {"finish", "exit"} /\ status # "crashed" => Len(searched) = Len(SUBJECT_MAP)
        \* a failed search gives no detail GET; otherwise the matching candidates are
        \* fetched in order, all of them once the subject is left, whatever failed
        /\ \A n \in 1..Len(searched) :
              LET expected == IF SearchFailed(searched[n].response) THEN <<>>
                              ELSE Matching(searched[n].response, n)
                  details == DetailsOf(n)
              IN  /\ Len(details) <= Len(expected)
                  /\ \A k \in 1..Len(details) : details[k].candidate = expected[k]
                  /\ SubjectDone(n) => Len(details) = Len(expected)
        \* the file holds one row per candidate that did not fail, in order
        /\ Len(FileRows) = Len(Succeeded)
        /\ \A k \in 1..Len(FileRows) :
              /\ FileRows[k].course_id = Succeeded[k].candidate[1]
              /\ FileRows[k].subject = SubjectCode(Succeeded[k].subject)

\* C7: a candidate that fails (detail GET error, missing or malformed heading,
\* exception while parsing) gives no row and the next candidate of the subject is
\* handled; a failed search or a "no results" response gives no row for the subject
\* and the next subject is searched; every subject of the table is searched in the end
C7_CatalogNeverAborts ==
    /\ []C7_Catalog
    /\ <>(pc = "exit" /\ (status # "crashed" => Len(Fetched("search")) = Len(SUBJECT_MAP)))

\* the run is over: the search of the first subject failed, the first candidate of
\* the second subject failed and the one after it gave the only row
C7_Witness ==
    /\ pc = "exit" /\ status = "completed"
    /\ Len(Fetched("search")) = 2
    /\ Fetched("search")[1].response.error = "transport"
    /\ Len(DetailsOf(2)) = 2
    /\ CandidateFails(DetailsOf(2)[1])
    /\ ~CandidateFails(DetailsOf(2)[2])
    /\ Len(FileRows) = 1

\* the candidates of the search of subject i that the filter discards
Discarded(response, i) ==
    {j \in 1..Len(extract_course_ids(response.doc)) :
        extract_course_ids(response.doc)[j][4] # SubjectCode(i)}

\* C8: a detail document is fetched, and a row written, only for a candidate whose
\* verification code equals the code of the subject under scan; a candidate with
\* another code or without one gets no detail GET; the subject of every row is the
\* verification code of the candidate it came from
C8_SubjectFilter ==
    /\ \A n \in 1..Len(fetches) :
          fetches[n].kind = "detail" =>
             fetches[n].candidate[4] = SubjectCode(fetches[n].subject)
    /\ \A n \in 1..Len(Fetched("search")) :
          \A e \in {DetailsOf(n)[k] : k \in 1..Len(DetailsOf(n))} :
             e.entry \notin Discarded(Fetched("search")[n].response, n)
    /\ Len(FileRows) <= Len(Succeeded)
    /\ \A k \in 1..Len(FileRows) : FileRows[k].subject = Succeeded[k].candidate[4]

\* the first subject is left with a row written: of its four candidates one had the
\* subject's code, two had another code and one had none
C8_Witness ==
    /\ SubjectDone(1)
    /\ Len(fetches) >= 2
    /\ Cardinality(Discarded(fetches[1].response, 1)) = 3
    /\ \E j \in Discarded(fetches[1].response, 1) :
          IsNone(extract_course_ids(fetches[1].response.doc)[j][4])
    /\ Len(DetailsOf(1)) = 1
    /\ Len(FileRows) >= 1
    /\ FileRows[1].subject = SubjectCode(1)

\* a row of the catalog file could not be written
RowWriteFailed == \E n \in 1..Len(fetches) : fetches[n].write_error

\* C16: a run whose output file could not be opened, or a write to which failed,
\* ends as failed: it never reports successful completion after a failed write
C16_WriteFailureFails ==
    pc = "exit" /\ subject_index > 0 /\ RowWriteFailed => status \in {"failed", "crashed"}

-----------------------------------------------------------------------------
(* One record built from one fetched document *)

MaxClauses == 2        \* clauses of a requirement text

\* a detail page with a good heading and the given rest
CoursePage(table, attrs, clear, siblings) ==
    DetailPage("none", Str(<<"1", "1", "0", "1", " ", "-", " ", "I", "n", "t", "r", "o">>), table, attrs, clear, siblings)

\* a row of the right-hand panel
RightRow(label, value) == Row(TRUE, Str(label), <<Str(label), value>>)

\* the texts a requirement clause begins with: the three anchors and a plain word
ClauseHeads == {KwCorequisite, KwPrerequisite, KwNotOpen, <<"S", "e", "e">>}
\* what a clause ends with; the cell text may run over several lines
ClauseEnds == {<<";", " ">>, <<".", " ">>, <<";", "\n">>}

\* the clause at position k of a text: its body carries k
Clause(head, k, end) == head \o <<" ", "M", DigitChar(k)>> \o end

RECURSIVE ClauseTexts(_)
\* the texts of n clauses
ClauseTexts(n) ==
    IF n = 0 THEN {<<>>}
    ELSE {t \o Clause(h, n, e) : t \in ClauseTexts(n - 1), h \in ClauseHeads, e \in ClauseEnds}

\* value_cell.get_text(strip=True) of the Requirement row
RequirementTexts == {Strip(t) : t \in UNION {ClauseTexts(n) : n \in 0..MaxClauses}}

RequirementPages ==
    {CoursePage(<<RightRow(<<"R", "e", "q", "u", "i", "r", "e", "m", "e", "n", "t", ":">>, Str(t))>>, <<>>, FALSE, <<>>) :
        t \in RequirementTexts}

MaxWords == 3          \* words of a Typically Offered text

TermWords ==
    {<<"F", "a", "l", "l">>, <<"S", "p", "r", "i", "n", "g">>, <<"S", "u", "m", "m", "e", "r">>,
     <<"A", "l", "t", "e", "r", "n", "a", "t", "e", " ", "Y", "e", "a", "r", "s">>, <<"f", "a", "l", "l">>, <<"Y", "e", "a", "r", "s">>}

RECURSIVE WordTexts(_)
\* the texts of n words
WordTexts(n) ==
    IF n = 0 THEN {<<>>}
    ELSE IF n = 1 THEN TermWords
    ELSE {t \o <<",", " ">> \o w : t \in WordTexts(n - 1), w \in TermWords}

TermTexts == UNION {WordTexts(n) : n \in 0..MaxWords}

\* the pages with a Typically Offered row, and one without
TermPages ==
    {CoursePage(<<RightRow(<<"T", "y", "p", "i", "c", "a", "l", "l", "y", " ", "O", "f", "f", "e", "r", "e", "d", ":">>, Str(t))>>, <<>>, FALSE, <<>>) :
        t \in TermTexts}
    \cup {CoursePage(<<RightRow(<<"U", "n", "i", "t", "s", ":">>, Str(<<"3">>))>>, <<>>, FALSE, <<>>)}

MaxAttrs == 2          \* divs of an attribute list

\* the labels tried in a School, Career or Component(s) row: one of each table, one of
\* no table, one that differs in case; None: the row is absent
LookupLabels ==
    {Sym("School of Engineering"), Sym("Undergraduate"), Sym("Lecture"), Sym("Hogwarts"),
     Sym("lecture"), None}

\* the rows of a name/value table for the labels given, absent ones left out
LabelRows(names, values) ==
    LET at == {i \in 1..Len(names) : ~IsNone(values[i])}
    IN  [n \in 1..Cardinality(at) |->
            LET i == CHOOSE j \in at : Cardinality({k \in at : k < j}) = n - 1
            IN  <<Str(names[i]), values[i]>>]

\* the texts of the attribute divs
AttributeLabels ==
    {Sym("AXLE: Humanities and the Creative Arts"),
     Sym("AXLE: Mathematics and Natural Sciences"), Sym("Blank"), Sym("Other")}

AttributeLists == UNION {[1..n -> AttributeLabels] : n \in 0..MaxAttrs}

\* the course pages with the three rows, and those with an attribute list
LookupCoursePages ==
    {CoursePage([i \in 1..Len(trs) |-> Row(FALSE, trs[i][1], <<trs[i][1], trs[i][2]>>)],
                <<>>, FALSE, <<>>) :
        trs \in {LabelRows(<<<<"S", "c", "h", "o", "o", "l", ":">>, <<"C", "a", "r", "e", "e", "r", ":">>, <<"C", "o", "m", "p", "o", "n", "e", "n", "t", "s", ":">>>>, v) :
                     v \in [1..3 -> LookupLabels]}}
    \cup {CoursePage(<<>>, a, FALSE, <<>>) : a \in AttributeLists}

\* the class pages with a good heading and the three rows
LookupClassPages ==
    {Page("none", TRUE, Str(GoodHeading),
          List(LabelRows(<<<<"S", "c", "h", "o", "o", "l", ":">>, <<"C", "a", "r", "e", "e", "r", ":">>, <<"C", "o", "m", "p", "o", "n", "e", "n", "t", ":">>>>, v))) :
        v \in [1..3 -> LookupLabels]}

MaxSiblings == 3       \* divs after the div of class "clear"

SiblingDivs ==
    {Div("detailHeader", <<"D", "e", "s", "c", "r", "i", "p", "t", "i", "o", "n">>), Div("detailHeader", <<"N", "o", "t", "e", "s">>),
     Div("detailPanel", <<" ", "P", "r", "o", "o", "f", "s", ".", " ">>), Div("detailPanel", <<"N", "o", "n", "e">>),
     Div("spacer", <<>>)}

\* the pages with a "clear" div and the divs after it, and the same without the div
DescriptionPages ==
    {CoursePage(<<>>, <<>>, clear, siblings) :
        clear \in BOOLEAN, siblings \in UNION {[1..n -> SiblingDivs] : n \in 0..MaxSiblings}}

ClassDocuments == LookupClassPages

CourseDocuments == RequirementPages \cup TermPages \cup LookupCoursePages \cup DescriptionPages

InitRecord ==
    /\ \/ document \in CourseDocuments /\ pc = "course"
       \/ document \in ClassDocuments /\ pc = "class"
    /\ record = None
    /\ output_file = None
    /\ status = "running"
    /\ ReqIdle /\ ScanIdle /\ HeaderIdle /\ IdsIdle /\ CatalogIdle /\ SubjectsIdle

\* course_data = extract_course_details(detail_response.text, subject_code, course_id)
ExtractCourseDetails ==
    /\ pc = "course"
    /\ record' = extract_course_details(document, SUBJECT_MAP[1][2], Str(<<"1", "0", "1">>))
    /\ pc' = "return"
    /\ UNCHANGED <<output_file, status, document, reqVars, scanVars, headerVars, idsVars,
                   catalogVars, subjectVars>>

\* class_data = scrape_class_section(class_number)
ScrapeClassSection ==
    /\ pc = "class"
    /\ record' = scrape_class_section(START_CLASS_NUMBER, document)
    /\ pc' = "return"
    /\ UNCHANGED <<output_file, status, document, reqVars, scanVars, headerVars, idsVars,
                   catalogVars, subjectVars>>

NextRecord == ExtractCourseDetails \/ ScrapeClassSection

SpecRecord == InitRecord /\ [][NextRecord]_vars

-----------------------------------------------------------------------------
(* Properties of a course record *)

\* the document is a class page (it has a panel), not a course page
IsClassPage(page) == "panel" \in DOMAIN page

\* the text of the right-hand row with the label, empty when there is no such row
RightText(page, label) ==
    LET at == {i \in 1..Len(page.table) :
                  page.table[i].right /\ page.table[i].strong = Str(label)}
    IN  IF at = {} THEN <<>> ELSE page.table[SetMax(at)].tds[2][2]

Anchors == {KwCorequisite, KwPrerequisite, KwNotOpen}

\* the places of t where anchor a stands
AnchorPlaces(t, a) == {i \in 1..Len(t) : i + Len(a) - 1 <= Len(t) /\ SubSeq(t, i, i + Len(a) - 1) = a}

\* what follows the first a in t, up to the earliest other anchor after it
Segment(t, a) ==
    LET from == SetMin(AnchorPlaces(t, a)) + Len(a)
        others == UNION {{i \in AnchorPlaces(t, o) : i >= from} : o \in Anchors \ {a}}
        to == IF others = {} THEN Len(t) ELSE SetMin(others) - 1
    IN  SubSeq(t, from, to)

\* t without the ':', ';' and white space around it
Trimmed(t) ==
    LET kept == {i \in 1..Len(t) : t[i] \notin {":", ";"} /\ ~IsSpace(t[i])}
    IN  IF kept = {} THEN <<>> ELSE SubSeq(t, SetMin(kept), SetMax(kept))

\* what the claim gives for anchor a in the requirement text t
OwnSegment(t, a) == IF AnchorPlaces(t, a) = {} THEN None ELSE Str(Trimmed(Segment(t, a)))

\* C11: extract_requirement_text is absent when the keyword is not in the text;
\* otherwise it is what follows the first keyword, cut at the earliest of the other
\* two anchors, without the ':', ';' and white space around it; so prerequisites,
\* corequisites and anti-requisites each hold their own segment in any order
C11_RequirementText ==
    pc = "return" /\ ~IsClassPage(document) /\ ~IsNone(record) =>
        LET t == RightText(document, <<"R", "e", "q", "u", "i", "r", "e", "m", "e", "n", "t", ":">>)
        IN  /\ record[2].corequisites = OwnSegment(t, KwCorequisite)
            /\ record[2].prerequisites = OwnSegment(t, KwPrerequisite)
            /\ record[2].anti_requirements = OwnSegment(t, KwNotOpen)


\* the tests of term_offered in their order: the word looked for and its token
TermTests ==
    << <<<<"F", "a", "l", "l">>, <<"F", "A">> >>,
       <<<<"S", "p", "r", "i", "n", "g">>, <<"S", "P">> >>,
       <<<<"S", "u", "m", "m", "e", "r">>, <<"S", "U">> >>,
       <<<<"A", "l", "t", "e", "r", "n", "a", "t", "e", " ", "Y", "e", "a", "r", "s">>, <<"A", "L", "T">> >> >>

\* the pieces of t between the ", "
RECURSIVE CommaPieces(_)
CommaPieces(t) ==
    LET at == {i \in 1..(Len(t) - 1) : t[i] = "," /\ t[i + 1] = " "}
    IN  IF at = {} THEN <<t>>
        ELSE <<SubSeq(t, 1, SetMin(at) - 1)>> \o CommaPieces(SubSeq(t, SetMin(at) + 2, Len(t)))

\* C12: term_offered holds FA iff the Typically Offered text holds "Fall", SP iff
\* "Spring", SU iff "Summer", ALT iff "Alternate Years"; the tokens are joined with
\* ", " in the order FA, SP, SU, ALT whatever the order of the words, each at most
\* once; it is the empty string when nothing matches or the row is absent
C12_TermOffered ==
    pc = "return" /\ ~IsClassPage(document) /\ ~IsNone(record) =>
        LET t == RightText(document, <<"T", "y", "p", "i", "c", "a", "l", "l", "y", " ", "O", "f", "f", "e", "r", "e", "d", ":">>)
            present == SelectSeq(TermTests, LAMBDA test : AnchorPlaces(t, test[1]) # {})
            term_offered == record[2].term_offered[2]
        IN  /\ record[2].term_offered[1] = "str"
            /\ present = <<>> => term_offered = <<>>
            /\ present # <<>> => CommaPieces(term_offered) = [i \in 1..Len(present) |-> present[i][2]]

\* "Summer, Fall, Fall" gave "FA, SU"
C12_Witness ==
    /\ pc = "return"
    /\ ~IsClassPage(document)
    /\ RightText(document, <<"T", "y", "p", "i", "c", "a", "l", "l", "y", " ", "O", "f", "f", "e", "r", "e", "d", ":">>) = <<"S", "u", "m", "m", "e", "r", ",", " ", "F", "a", "l", "l", ",", " ", "F", "a", "l", "l">>
    /\ record[2].term_offered = Str(<<"F", "A", ",", " ", "S", "U">>)


\* the value beside the label in the rows <<label, value>>, None without such a row
CellOf(trs, label) ==
    LET at == {i \in 1..Len(trs) : trs[i][1] = Str(label)}
    IN  IF at = {} THEN None ELSE trs[SetMax(at)][2]

\* the rows <<label, value>> of a course page
CourseRows(page) == [i \in 1..Len(page.table) |-> <<page.table[i].strong, page.table[i].tds[2]>>]

\* the code the table holds for the label, None for a label it does not hold
Configured(table, label) ==
    IF ~IsNone(label) /\ label[2] \in DOMAIN table THEN Sym(table[label[2]]) ELSE None

\* the attribute codes of the page: the mapped labels in document order
AttributeCodes(page) ==
    LET mapped == SelectSeq(page.attrs,
                            LAMBDA a : a[2] \in DOMAIN ATTRIBUTE_MAP /\ ATTRIBUTE_MAP[a[2]] # <<>>)
    IN  [i \in 1..Len(mapped) |-> ATTRIBUTE_MAP[mapped[i][2]]]

\* C13: a lookup is exact and never raises: the code stored for a label of the
\* category's table is the configured one, for any other label or an absent row it
\* is null, also when the label is in another category's table; the record is still
\* emitted; the attributes are the codes of the mapped labels in document order
C13_Lookup ==
    pc = "return" =>
        IF IsClassPage(document)
        THEN LET trs == document.panel[2]
             IN  /\ ~IsNone(record)
                 /\ record[2].school_code = Configured(SCHOOL_MAP, CellOf(trs, <<"S", "c", "h", "o", "o", "l", ":">>))
                 /\ record[2].career_code = Configured(CAREER_MAP, CellOf(trs, <<"C", "a", "r", "e", "e", "r", ":">>))
                 /\ record[2].component_code =
                        Configured(COMPONENT_MAP, CellOf(trs, <<"C", "o", "m", "p", "o", "n", "e", "n", "t", ":">>))
        ELSE LET trs == CourseRows(document)
             IN  /\ ~IsNone(record)
                 /\ record[2].school_code = Configured(SCHOOL_MAP, CellOf(trs, <<"S", "c", "h", "o", "o", "l", ":">>))
                 /\ record[2].career_code = Configured(CAREER_MAP, CellOf(trs, <<"C", "a", "r", "e", "e", "r", ":">>))
                 /\ record[2].component_code =
                        Configured(COMPONENT_MAP, CellOf(trs, <<"C", "o", "m", "p", "o", "n", "e", "n", "t", "s", ":">>))
                 /\ IF AttributeCodes(document) = <<>> THEN IsNone(record[2].attributes)
                    ELSE CommaPieces(record[2].attributes[2]) = AttributeCodes(document)

\* a class record with the component label "Lecture" in its School row, an unknown
\* career and the component "Lecture": only the component has a code
C13_Witness ==
    /\ pc = "return"
    /\ IsClassPage(document)
    /\ CellOf(document.panel[2], <<"S", "c", "h", "o", "o", "l", ":">>) = Sym("Lecture")
    /\ CellOf(document.panel[2], <<"C", "a", "r", "e", "e", "r", ":">>) = Sym("Hogwarts")
    /\ CellOf(document.panel[2], <<"C", "o", "m", "p", "o", "n", "e", "n", "t", ":">>) = Sym("Lecture")
    /\ IsNone(record[2].school_code)
    /\ IsNone(record[2].career_code)
    /\ record[2].component_code = Sym("LEC")
    /\ record[2].class_number = Str(ToStr(START_CLASS_NUMBER))


\* the first "detailHeader" div after the anchor whose text holds "Description", 0
\* when there is none or no anchor
DescriptionHeader(page) ==
    LET at == {i \in 1..Len(page.siblings) :
                  /\ page.siblings[i].class = "detailHeader"
                  /\ AnchorPlaces(page.siblings[i].text[2], <<"D", "e", "s", "c", "r", "i", "p", "t", "i", "o", "n">>) # {}}
    IN  IF page.clear /\ at # {} THEN SetMin(at) ELSE 0

\* C18: the description is the text of the content panel right after the first
\* "detailHeader" div, among the siblings after the anchor, whose text holds
\* "Description"; without such a header or without a panel after it, it is the empty
\* string, never null
C18_Description ==
    pc = "return" /\ ~IsClassPage(document) /\ ~IsNone(record) =>
        LET h == DescriptionHeader(document)
            divs == document.siblings
        IN  record[2].description =
                IF h # 0 /\ h < Len(divs) /\ divs[h + 1].class = "detailPanel"
                THEN Str(Strip(divs[h + 1].text[2]))
                ELSE Str(<<>>)

-----------------------------------------------------------------------------
(* Subject-table generator: extract_html_subjects.py *)

MaxContainers == 2     \* multiSelectOptionContainer divs of the HTML file

\* The HTML file: <<"missing">>, <<"unreadable">> or List of its containers; a
\* container is None (no input tag of class multiSelectOption) or <<title, value>>,
\* an attribute being None when the tag does not have it
SubjectTitles == {<<"A", "r", "t">>, <<"A", "'", "s">>, <<"B", "i", "o">>}

Containers ==
    {None} \cup
    {<<title, value>> :
        title \in {Str(t) : t \in SubjectTitles} \cup {None},
        value \in {Str(<<"A", "R", "T">>), Str(<<>>)}}

HtmlFiles ==
    {<<"missing">>, <<"unreadable">>}
    \cup {List(c) : c \in UNION {[1..n -> Containers] : n \in 0..MaxContainers}}

\* a file that is there before the run
OldFile == List(<<Sym("old")>>)

RECURSIVE TitleValueMap(_, _)
\* the loop over the containers, a later title replacing an earlier one
TitleValueMap(containers, acc) ==
    IF containers = <<>> THEN acc
    ELSE LET c == Head(containers)
         IN  TitleValueMap(Tail(containers),
                 IF ~IsNone(c) /\ Truthy(c[1]) /\ Truthy(c[2]) THEN Put(acc, c[1][2], c[2][2])
                 ELSE acc)

extract_subject_mappings(file) ==
    IF file[1] # "list" THEN EmptyDict ELSE TitleValueMap(file[2], EmptyDict)

\* the order of the characters tried
CharOrder == <<"'", "A", "B", "a", "i", "o", "r", "s", "t">>
Ord(c) == CHOOSE i \in 1..Len(CharOrder) : CharOrder[i] = c

\* a < b as Python compares two different strings
LessStr(a, b) ==
    \E i \in 1..(Len(a) + 1) :
        /\ i <= Len(b)
        /\ \A j \in 1..(i - 1) : a[j] = b[j]
        /\ i = Len(a) + 1 \/ Ord(a[i]) < Ord(b[i])

\* title.replace("'", "\\'")
EscapeQuotes(title) ==
    IF title = <<>> THEN <<>>
    ELSE FlatMap(LAMBDA c : IF c = "'" THEN <<"\\", "'">> ELSE <<c>>, title)

\* the lines written between "SUBJECT_MAP = {" and "}": sorted by title, a comma
\* after all but the last
MappingLines(map) ==
    [n \in 1..Cardinality(DOMAIN map) |->
        LET title == CHOOSE t \in DOMAIN map :
                        Cardinality({o \in DOMAIN map : LessStr(o, t)}) = n - 1
        IN  [title |-> EscapeQuotes(title), value |-> map[title],
             comma |-> n < Cardinality(DOMAIN map)]]

InitSubjects ==
    /\ pc = "extract"
    /\ html \in HtmlFiles
    /\ mappings = None
    /\ output_file \in {None, OldFile}
    /\ status = "running"
    /\ course_entries = <<>>
    /\ ReqIdle /\ ScanIdle /\ HeaderIdle /\ CatalogIdle /\ RecordIdle

\* variant: main() saves whatever the loader returned
ExtractSubjectMappings_NoCheck ==
    /\ pc = "extract"
    /\ mappings' = Dict(extract_subject_mappings(html))
    /\ pc' = "save_mappings"
    /\ UNCHANGED <<status, output_file, idsVars, reqVars, scanVars, headerVars, catalogVars, recordVars>>

\* mappings = extract_subject_mappings(html_path); if mappings: ... else: print
ExtractSubjectMappings ==
    /\ pc = "extract"
    /\ mappings' = Dict(extract_subject_mappings(html))
    /\ IF Truthy(mappings')
       THEN pc' = "save_mappings" /\ UNCHANGED status
       ELSE pc' = "exit" /\ status' = "no mappings"
    /\ UNCHANGED <<output_file, idsVars, reqVars, scanVars, headerVars, catalogVars, recordVars>>

\* save_mappings_to_file(mappings, output_path): any exception gives False
SaveMappings ==
    /\ pc = "save_mappings"
    /\ \/ /\ output_file' = List(MappingLines(mappings[2]))
          /\ status' = "completed"
       \/ /\ output_file' = output_file          \* makedirs or open raised
          /\ status' = "failed"
       \/ /\ output_file' = List(<<>>)           \* a write raised
          /\ status' = "failed"
    /\ pc' = "exit"
    /\ UNCHANGED <<mappings, idsVars, reqVars, scanVars, headerVars, catalogVars, recordVars>>

NextSubjects == ExtractSubjectMappings \/ SaveMappings

SpecSubjects == InitSubjects /\ [][NextSubjects]_vars

-----------------------------------------------------------------------------
(* The four scripts that write a file, one run of any of them *)

InitRuns == InitReq \/ InitScan \/ InitCatalog \/ InitSubjects

NextRuns == NextReq \/ NextScan \/ NextCatalog \/ NextSubjects

SpecRuns == InitRuns /\ [][NextRuns]_vars

\* which script runs
RequirementRun == mode # ""
ClassSectionRun == class_number # 0
CatalogRun == subject_index # 0
SubjectsRun == ~RequirementRun /\ ~ClassSectionRun /\ ~CatalogRun

\* the row written for a detail GET that did not fail
RowOf(e) == extract_course_details(e.response, SubjectCode(e.subject), e.candidate[1])[2]

\* class-section and requirement flows: no file before the last step of the run
C14_NothingEarly ==
    (ClassSectionRun \/ RequirementRun) /\ pc # "exit" => IsNone(output_file)

\* class-section and requirement flows: the only step that writes is the save step
\* that ends the run
C14_WrittenOnce ==
    (ClassSectionRun \/ RequirementRun) /\ output_file' # output_file
        => pc \in {"to_csv", "save"} /\ pc' = "exit"

\* course-catalog flow, at every point after the file was opened: the header,
\* then the rows of the courses parsed so far whose row was written, in order
C14_CatalogSoFar ==
    CatalogRun /\ pc # "open" /\ status # "crashed" =>
        output_file = List(<<Header(csv_keys)>> \o [k \in 1..Len(Succeeded) |-> RowOf(Succeeded[k])])

\* course-catalog flow: a detail GET is made in the step that writes its row, the
\* header is there before the first search
C14_RowWithItsCourse ==
    CatalogRun =>
        /\ fetches' # fetches => ~IsNone(output_file) /\ Head(output_file[2]) = Header(csv_keys)
        /\ Len(FileRows') > Len(FileRows) =>
              /\ Len(fetches') = Len(fetches) + 1
              /\ FileRows' = Append(FileRows, RowOf(fetches'[Len(fetches')]))

\* C14: in the class-section flow and in both requirement flows nothing is written
\* before every item is processed and the file is then written once; in the
\* course-catalog flow the header is written before the first subject and each row
\* with its course, so that the file always holds the header and the rows of the
\* courses handled so far, in processing order
C14_WriteTiming ==
    /\ [](C14_NothingEarly /\ C14_CatalogSoFar)
    /\ [][C14_WrittenOnce /\ C14_RowWithItsCourse]_vars

\* a catalog run in the middle of a subject: one candidate failed, the next one
\* has its row in the file, and a candidate is still to come
C14_Witness ==
    /\ CatalogRun /\ pc = "candidate"
    /\ Len(Fetched("detail")) = 2
    /\ CandidateFails(Fetched("detail")[1])
    /\ Len(FileRows) = 1
    /\ entry_index <= Len(course_entries)

\* the run of a script that writes a table is over, without an input error and
\* without an error of writing
EndedWell == ~SubjectsRun /\ pc = "exit" /\ status \in {"completed", "no data"}

\* the data rows the run produced
Produced ==
    CASE ClassSectionRun -> results
      [] RequirementRun  -> rows
      [] OTHER           -> Succeeded

IsHeaderRow(row) == "kind" \in DOMAIN row /\ row.kind = "header"

HasHeader == ~IsNone(output_file) /\ output_file[2] # <<>> /\ IsHeaderRow(Head(output_file[2]))

\* C15 as stated: after a run without an input or serialization error the output
\* file exists and starts with its header row, also when there are no data rows
\* (refuted: the class-section and requirement scripts write no file without rows)
C15_HeaderAlways == EndedWell => HasHeader

\* C15: after a run without an input or serialization error the course-catalog file
\* exists and starts with its header row, also without data rows; the class-section
\* file and the requirement file exist exactly when the run produced a data row and
\* then start with the header row, a run without rows reporting that there is no data
C15_HeaderWithRows ==
    EndedWell =>
        IF CatalogRun
        THEN HasHeader /\ Head(output_file[2]) = Header(csv_keys)
        ELSE IF Produced = <<>>
             THEN IsNone(output_file) /\ status = "no data"
             ELSE HasHeader /\ Len(output_file[2]) = 1 + Len(Produced) /\ status = "completed"

\* a class-section scan that found no class ends without a file
C15_Witness ==
    /\ ClassSectionRun /\ EndedWell
    /\ Len(requests) > 0 /\ results = <<>>
    /\ IsNone(output_file)

\* the HTML file of the subject-table generator cannot be opened or read
HtmlAbsent == SubjectsRun /\ html[1] # "list"

\* the JSON file of a requirement run could not be loaded
JsonAbsent == RequirementRun /\ pc # "load" /\ IsNone(json_data)

\* the loader has returned its absent result and the run is over, nothing converted
C17_RunEnds ==
    /\ JsonAbsent => pc = "exit" /\ status = "load failed" /\ rows = <<>>
    /\ HtmlAbsent /\ pc # "extract" =>
          mappings = Dict(EmptyDict) /\ pc = "exit" /\ status = "no mappings"

\* no step of a run whose input is absent touches the output file
C17_FileUntouched ==
    (HtmlAbsent \/ (RequirementRun /\ IsNone(json_data'))) => output_file' = output_file

====
